---- MODULE Spec2Model ----
(***************************************************************************)
(* Model of the Beluga planning engine: the state/action model, the three  *)
(* heuristics, the CSP domain reduction, the baseline A* search, the       *)
(* hybrid search with stagnation restarts, and the randomized local search.*)
(***************************************************************************)
EXTENDS Integers, Sequences, FiniteSets, TLC

VARIABLES
    mode,               \* which entry point is being run
    inst,               \* instance_data (read-only)
    cfg,                \* arguments of the running search call
    initial_state,      \* initial_state argument
    pc,                 \* position of the running call
    open_set,           \* PriorityQueue.elements, as a set of heap entries
    entry_count,        \* PriorityQueue.entry_count
    came_from,          \* came_from map
    cost_so_far,        \* cost_so_far map
    iterations,         \* iterations counter of the A* / hybrid loop
    current_state,      \* state popped in the latest iteration
    result,             \* value returned by the search call
    best_progress,      \* hybrid: best_progress dict
    stagnation_counter, \* hybrid: stagnation_counter
    restart_states,     \* hybrid: restart_states list
    ls,                 \* local variables of BelugaLocalSearch.solve
    csp,                \* BelugaCSP object during reduce_domains
    hist                \* observation record (calls made, exit taken)

vars == <<mode, inst, cfg, initial_state, pc, open_set, entry_count, came_from,
          cost_so_far, iterations, current_state, result, best_progress,
          stagnation_counter, restart_states, ls, csp, hist>>

(***************************************************************************)
(* Generic helpers                                                         *)
(***************************************************************************)
Max(a, b) == IF a >= b THEN a ELSE b

Min(a, b) == IF a <= b THEN a ELSE b

RECURSIVE Concat(_)
Concat(ss) == IF ss = <<>> THEN <<>> ELSE Head(ss) \o Concat(Tail(ss))

RECURSIVE SumSeq(_)
SumSeq(q) ==
    IF Len(q) = 0 THEN 0
    ELSE IF Len(q) = 1 THEN q[1]
    ELSE LET h == Len(q) \div 2
         IN  SumSeq(SubSeq(q, 1, h)) + SumSeq(SubSeq(q, h + 1, Len(q)))

InSeq(x, q) == \E i \in 1..Len(q) : q[i] = x

IndexOf(x, q) == CHOOSE i \in 1..Len(q) : q[i] = x /\ \A k \in 1..(i-1) : q[k] # x

RECURSIVE Perms(_)
Perms(S) == IF S = {} THEN {<<>>}
            ELSE UNION {{<<x>> \o p : p \in Perms(S \ {x})} : x \in S}

(***************************************************************************)
(* Python numbers.  The ints of the program are far below 2^53, so an int  *)
(* and the float of the same value add, multiply, divide and compare       *)
(* alike, and every number is kept as an IEEE 754 double [neg, e, m] of    *)
(* value (-1)^neg * M * 2^e, where M is the 53-bit integer (2^52 <= M <    *)
(* 2^53) with the four limbs m, base 2^15, least significant first; zero   *)
(* is FZero.  A sum, product or quotient is computed exactly on limb       *)
(* sequences of any length and then rounded to nearest, ties to even, as   *)
(* the float operations of CPython are.                                    *)
(***************************************************************************)
RECURSIVE Pow2(_)
Pow2(k) == IF k = 0 THEN 1 ELSE 2 * Pow2(k - 1)

RECURSIVE IntBitLen(_)
IntBitLen(n) == IF n = 0 THEN 0 ELSE 1 + IntBitLen(n \div 2)

\* the precision of a Python float
MantissaBits == 53

LimbBase == Pow2(15)

LimbBits == IntBitLen(LimbBase) - 1

Limb(a, i) == IF i <= Len(a) THEN a[i] ELSE 0

\* a natural number as limbs without a leading zero limb; zero is <<>>
RECURSIVE BigTrim(_)
BigTrim(a) == IF a = <<>> THEN <<>>
              ELSE IF a[Len(a)] # 0 THEN a
              ELSE BigTrim(SubSeq(a, 1, Len(a) - 1))

RECURSIVE BigFromInt(_)
BigFromInt(n) == IF n = 0 THEN <<>> ELSE <<n % LimbBase>> \o BigFromInt(n \div LimbBase)

RECURSIVE BigAddFrom(_, _, _, _)
BigAddFrom(a, b, i, carry) ==
    IF i > Len(a) /\ i > Len(b) THEN (IF carry = 0 THEN <<>> ELSE <<carry>>)
    ELSE CHOOSE r \in {<<t % LimbBase>> \o BigAddFrom(a, b, i + 1, t \div LimbBase) :
                          t \in {Limb(a, i) + Limb(b, i) + carry}} : TRUE

BigAdd(a, b) == CHOOSE r \in {BigAddFrom(x, y, 1, 0) : x \in {a}, y \in {b}} : TRUE

\* a - b for a >= b
RECURSIVE BigSubFrom(_, _, _, _)
BigSubFrom(a, b, i, borrow) ==
    IF i > Len(a) THEN <<>>
    ELSE CHOOSE r \in {<<IF t < 0 THEN t + LimbBase ELSE t>>
                          \o BigSubFrom(a, b, i + 1, IF t < 0 THEN 1 ELSE 0) :
                          t \in {a[i] - Limb(b, i) - borrow}} : TRUE

BigSub(a, b) == CHOOSE r \in {BigTrim(BigSubFrom(x, y, 1, 0)) : x \in {a}, y \in {b}} : TRUE

\* a * c for a limb c
RECURSIVE BigMulSmallFrom(_, _, _, _)
BigMulSmallFrom(a, c, i, carry) ==
    IF i > Len(a) THEN (IF carry = 0 THEN <<>> ELSE <<carry>>)
    ELSE CHOOSE r \in {<<t % LimbBase>> \o BigMulSmallFrom(a, c, i + 1, t \div LimbBase) :
                          t \in {a[i] * c + carry}} : TRUE

BigMulSmall(a, c) ==
    IF c = 0 THEN <<>>
    ELSE CHOOSE r \in {BigMulSmallFrom(x, c, 1, 0) : x \in {a}} : TRUE

ShiftLimbs(a, q) ==
    CHOOSE r \in {IF x = <<>> THEN <<>> ELSE [i \in 1..q |-> 0] \o x : x \in {a}} : TRUE

\* a * 2^k
BigShl(a, k) == ShiftLimbs(BigMulSmall(a, Pow2(k % LimbBits)), k \div LimbBits)

\* floor(a / 2^k)
BigShr(a, k) ==
    CHOOSE r \in
        {IF Len(x) <= k \div LimbBits THEN <<>>
         ELSE BigTrim([i \in 1..(Len(x) - k \div LimbBits) |->
                          (x[i + k \div LimbBits] \div p)
                            + (Limb(x, i + k \div LimbBits + 1) % p) * (LimbBase \div p)]) :
            x \in {a}, p \in {Pow2(k % LimbBits)}} : TRUE

BigBitLen(a) == IF a = <<>> THEN 0 ELSE LimbBits * (Len(a) - 1) + IntBitLen(a[Len(a)])

\* bit k of a, bit 0 the lowest
BigBit(a, k) == (Limb(a, k \div LimbBits + 1) \div Pow2(k % LimbBits)) % 2

\* the lowest k bits of a are zero
BigLowZero(a, k) ==
    /\ \A i \in 1..(k \div LimbBits) : Limb(a, i) = 0
    /\ Limb(a, k \div LimbBits + 1) % Pow2(k % LimbBits) = 0

RECURSIVE BigLessFrom(_, _, _)
BigLessFrom(a, b, i) ==
    IF i = 0 THEN FALSE
    ELSE IF a[i] # b[i] THEN a[i] < b[i]
    ELSE BigLessFrom(a, b, i - 1)

BigLess(a, b) == IF Len(a) # Len(b) THEN Len(a) < Len(b) ELSE BigLessFrom(a, b, Len(a))

RECURSIVE BigMulFrom(_, _, _)
BigMulFrom(a, b, i) ==
    IF i > Len(b) THEN <<>>
    ELSE BigAdd(BigMulSmall(a, b[i]), ShiftLimbs(BigMulFrom(a, b, i + 1), 1))

BigMul(a, b) == CHOOSE r \in {BigMulFrom(x, y, 1) : x \in {a}, y \in {b}} : TRUE

\* quotient and remainder of the limbs 1..i of a, after the remainder rem of
\* the limbs above them, by a limb d
RECURSIVE BigDivFrom(_, _, _, _)
BigDivFrom(a, d, i, rem) ==
    IF i = 0 THEN [q |-> <<>>, r |-> rem]
    ELSE CHOOSE res \in
            {[q |-> Append(lower.q, cur \div d), r |-> lower.r] :
                lower \in UNION {{BigDivFrom(a, d, i - 1, cur % d)} :
                                     cur \in {rem * LimbBase + a[i]}},
                cur \in {rem * LimbBase + a[i]}} : TRUE

BigDivSmall(a, d) ==
    CHOOSE res \in {[q |-> BigTrim(qr.q), r |-> qr.r] :
                       qr \in UNION {{BigDivFrom(x, d, Len(x), 0)} : x \in {a}}} : TRUE

FZero == [neg |-> FALSE, e |-> 0, m |-> <<0, 0, 0, 0>>]

IsFZero(a) == a.m[4] = 0

Pad4(a) == [i \in 1..4 |-> Limb(a, i)]

\* q2 * 2^e for a q2 of 53 bits or of 54 bits (2^53, after a carry)
FRoundNorm(neg, q2, e) ==
    CHOOSE r \in {IF BigBitLen(x) > MantissaBits
                  THEN [neg |-> neg, e |-> e + 1, m |-> Pad4(BigShr(x, 1))]
                  ELSE [neg |-> neg, e |-> e, m |-> Pad4(x)] : x \in {q2}} : TRUE

\* the lowest k bits of big are cut off: round to nearest, a tie to even
FRoundCut(neg, big, e, sticky, k) ==
    CHOOSE r \in {FRoundNorm(neg,
                             IF BigBit(big, k - 1) = 1
                                  /\ (sticky \/ ~BigLowZero(big, k - 1) \/ q[1] % 2 = 1)
                             THEN BigAdd(q, <<1>>) ELSE q,
                             e + k) : q \in {BigShr(big, k)}} : TRUE

\* the double nearest to (-1)^neg * (B + f) * 2^e, where B is the number of
\* the limbs big and 0 <= f < 1 is a lost fraction, f > 0 iff sticky (then B
\* has more than 54 bits)
FRoundBig(neg, big, e, sticky) ==
    IF big = <<>> THEN FZero
    ELSE IF BigBitLen(big) <= MantissaBits
    THEN [neg |-> neg, e |-> e - (MantissaBits - BigBitLen(big)),
          m |-> Pad4(BigShl(big, MantissaBits - BigBitLen(big)))]
    ELSE FRoundCut(neg, big, e, sticky, BigBitLen(big) - MantissaBits)

FRound(neg, big, e, sticky) ==
    CHOOSE r \in {FRoundBig(neg, x, e, sticky) : x \in {big}} : TRUE

\* the float of a Python int
FInt(k) == FRound(k < 0, BigFromInt(IF k < 0 THEN -k ELSE k), 0, FALSE)

FNeg(a) == IF IsFZero(a) THEN a ELSE [a EXCEPT !.neg = ~a.neg]

\* x * 2^lo and y * 2^lo with their signs
FAddAligned(xneg, x, yneg, y, lo) ==
    IF xneg = yneg THEN FRound(xneg, BigAdd(x, y), lo, FALSE)
    ELSE IF x = y THEN FZero
    ELSE IF BigLess(x, y) THEN FRound(yneg, BigSub(y, x), lo, FALSE)
    ELSE FRound(xneg, BigSub(x, y), lo, FALSE)

FAddBound(a, b) ==
    IF IsFZero(a) THEN b
    ELSE IF IsFZero(b) THEN a
    ELSE CHOOSE r \in
            {FAddAligned(a.neg, x, b.neg, y, lo) :
                x \in {BigShl(a.m, a.e - (IF a.e < b.e THEN a.e ELSE b.e))},
                y \in {BigShl(b.m, b.e - (IF a.e < b.e THEN a.e ELSE b.e))},
                lo \in {IF a.e < b.e THEN a.e ELSE b.e}} : TRUE

\* a + b
FAdd(a, b) == CHOOSE r \in {FAddBound(x, y) : x \in {a}, y \in {b}} : TRUE

FMulBound(a, b) ==
    IF IsFZero(a) \/ IsFZero(b) THEN FZero
    ELSE FRound(a.neg # b.neg, BigMul(a.m, b.m), a.e + b.e, FALSE)

\* a * b
FMul(a, b) == CHOOSE r \in {FMulBound(x, y) : x \in {a}, y \in {b}} : TRUE

FDivBound(a, d) ==
    IF IsFZero(a) THEN FZero
    ELSE CHOOSE r \in {FRound(a.neg, qr.q, a.e - 2 * LimbBits, qr.r # 0) :
                          qr \in {BigDivSmall(ShiftLimbs(a.m, 2), d)}} : TRUE

\* a / d for a Python int d with 0 < d < 2^15
FDiv(a, d) == CHOOSE r \in {FDivBound(x, d) : x \in {a}} : TRUE

FMagLess(a, b) ==
    IF IsFZero(b) THEN FALSE
    ELSE IF IsFZero(a) THEN TRUE
    ELSE IF a.e # b.e THEN a.e < b.e
    ELSE BigLessFrom(a.m, b.m, 4)

\* a < b
FLess(a, b) ==
    \E x \in {a}, y \in {b} :
        IF x.neg # y.neg THEN x.neg
        ELSE IF x.neg THEN FMagLess(y, x) ELSE FMagLess(x, y)

\* a <= b
FLeq(a, b) == ~FLess(b, a)

(***************************************************************************)
(* Instance data accessors                                                 *)
(***************************************************************************)
RackOrder(I) == [i \in 1..Len(I.racks) |-> I.racks[i].name]

RackSet(I) == {I.racks[i].name : i \in 1..Len(I.racks)}

JigSet(I) == DOMAIN I.jigs

production_schedule(I) == Concat([i \in 1..Len(I.production_lines) |-> I.production_lines[i].schedule])

\* variant: the size of the first rack, whatever the name asked for
rack_size_first_rack(I, r) == IF I.racks = <<>> THEN 0 ELSE I.racks[1].size

rack_size(I, r) ==
    IF \E i \in 1..Len(I.racks) : I.racks[i].name = r
    THEN I.racks[CHOOSE i \in 1..Len(I.racks) :
                    I.racks[i].name = r /\ \A k \in 1..(i-1) : I.racks[k].name # r].size
    ELSE 0

(***************************************************************************)
(* State and action model                                                  *)
(***************************************************************************)
NoPart == ""

MoveJigBetweenRacks(j, f, t) == [kind |-> "move", jig |-> j, from_rack |-> f, to_rack |-> t]

SendJigToProduction(j, r) == [kind |-> "produce", jig |-> j, from_rack |-> r, to_rack |-> ""]

ReturnEmptyJigFromFactory(j, r) == [kind |-> "return", jig |-> j, from_rack |-> "", to_rack |-> r]

ProcessNextFlight == [kind |-> "flight", jig |-> "", from_rack |-> "", to_rack |-> ""]

jig_size(I, s, j) ==
    IF s.jig_status[j].loaded
    THEN I.jig_types[I.jigs[j]].size_loaded
    ELSE I.jig_types[I.jigs[j]].size_empty

occupancy(I, s, r) == SumSeq([i \in 1..Len(s.rack_jigs[r]) |-> jig_size(I, s, s.rack_jigs[r][i])])

get_jig_location(I, s, j) ==
    IF \E r \in RackSet(I) : InSeq(j, s.rack_jigs[r])
    THEN LET ro == RackOrder(I)
         IN  ro[CHOOSE i \in 1..Len(ro) :
                    InSeq(j, s.rack_jigs[ro[i]]) /\ \A k \in 1..(i-1) : ~InSeq(j, s.rack_jigs[ro[k]])]
    ELSE IF j \in s.beluga_jigs THEN "beluga"
    ELSE IF j \in s.factory_jigs THEN "factory"
    ELSE "None"

Pending(s, j) ==
    /\ j \in DOMAIN s.jig_status
    /\ s.jig_status[j].loaded
    /\ s.jig_status[j].part # NoPart
    /\ s.jig_status[j].part \notin s.produced_parts

NextExpected(I, s, j) ==
    \E l \in 1..Len(I.production_lines) :
        LET sch == I.production_lines[l].schedule
        IN  \E i \in 1..Len(sch) :
                /\ sch[i] = j
                /\ \A k \in 1..(i-1) : ~Pending(s, sch[k])

FlightReady(I, s) ==
    LET fl == I.flights[s.current_flight_idx + 1]
    IN  /\ \A i \in 1..Len(fl.incoming) : fl.incoming[i] \notin s.beluga_jigs
        /\ \A t \in DOMAIN I.jig_types :
              Cardinality({j \in s.beluga_jigs : I.jigs[j] = t /\ ~s.jig_status[j].loaded})
                  >= Cardinality({i \in 1..Len(fl.outgoing) : fl.outgoing[i] = t})

is_valid_action(I, s, a) ==
    CASE a.kind = "move" ->
            /\ a.from_rack # a.to_rack
            /\ a.from_rack \in RackSet(I) /\ a.to_rack \in RackSet(I)
            /\ s.rack_jigs[a.from_rack] # <<>>
            /\ \/ a.jig = Head(s.rack_jigs[a.from_rack])
               \/ a.jig = s.rack_jigs[a.from_rack][Len(s.rack_jigs[a.from_rack])]
            /\ occupancy(I, s, a.to_rack) + jig_size(I, s, a.jig) <= rack_size(I, a.to_rack)
      [] a.kind = "produce" ->
            /\ a.from_rack \in RackSet(I)
            /\ s.rack_jigs[a.from_rack] # <<>>
            /\ a.jig = Head(s.rack_jigs[a.from_rack])
            /\ s.jig_status[a.jig].loaded
            /\ NextExpected(I, s, a.jig)
      [] a.kind = "return" ->
            /\ a.to_rack \in RackSet(I)
            /\ a.jig \in s.factory_jigs
            /\ ~s.jig_status[a.jig].loaded
            /\ occupancy(I, s, a.to_rack) + jig_size(I, s, a.jig) <= rack_size(I, a.to_rack)
      [] a.kind = "flight" ->
            /\ s.current_flight_idx < Len(I.flights) - 1
            /\ FlightReady(I, s)
      [] OTHER -> FALSE

RemoveFirst(q, x) ==
    LET i == IndexOf(x, q)
    IN  SubSeq(q, 1, i - 1) \o SubSeq(q, i + 1, Len(q))

\* variant: the jig stays on the rack it leaves
RemoveEdge_keeps_source(q, x) == q

RemoveEdge(q, x) ==
    IF Head(q) = x THEN Tail(q) ELSE SubSeq(q, 1, Len(q) - 1)

apply_action(I, s, a) ==
    CASE a.kind = "move" ->
            [s EXCEPT !.rack_jigs =
                [r \in DOMAIN s.rack_jigs |->
                    IF r = a.from_rack THEN RemoveEdge(s.rack_jigs[r], a.jig)
                    ELSE IF r = a.to_rack THEN Append(s.rack_jigs[r], a.jig)
                    ELSE s.rack_jigs[r]]]
      [] a.kind = "produce" ->
            [s EXCEPT !.rack_jigs[a.from_rack] = Tail(@),
                      !.factory_jigs = @ \cup {a.jig},
                      !.produced_parts = @ \cup {s.jig_status[a.jig].part},
                      !.jig_status[a.jig] = [loaded |-> FALSE, part |-> NoPart]]
      [] a.kind = "return" ->
            [s EXCEPT !.rack_jigs[a.to_rack] = <<a.jig>> \o @,
                      !.factory_jigs = @ \ {a.jig}]
      [] a.kind = "flight" ->
            [s EXCEPT !.current_flight_idx = @ + 1]

NoState == [rack_jigs |-> <<>>, jig_status |-> <<>>, factory_jigs |-> {}, beluga_jigs |-> {},
            current_flight_idx |-> -1, produced_parts |-> {}]

\* variant: processing a flight skips over the next flight
get_next_state_flight_skipped(I, s, a) ==
    IF is_valid_action(I, s, a)
    THEN IF a.kind = "flight" THEN [s EXCEPT !.current_flight_idx = @ + 2]
         ELSE apply_action(I, s, a)
    ELSE NoState

get_next_state(I, s, a) == IF is_valid_action(I, s, a) THEN apply_action(I, s, a) ELSE NoState

check_goal_progress(I, s) ==
    [flights_progress  |-> <<s.current_flight_idx, Len(I.flights)>>,
     parts_progress    |-> <<Cardinality(s.produced_parts), Len(production_schedule(I))>>,
     flights_processed |-> s.current_flight_idx,
     total_flights     |-> Len(I.flights),
     parts_produced    |-> Cardinality(s.produced_parts),
     total_parts       |-> Len(production_schedule(I))]

is_goal_state(I, s) ==
    /\ s.current_flight_idx >= Len(I.flights) - 1
    /\ Cardinality(s.produced_parts) >= Len(production_schedule(I))

IsNoState(s) == s.current_flight_idx = -1

RECURSIVE Replay(_, _, _)
Replay(I, s, plan) ==
    IF plan = <<>> THEN s
    ELSE IF IsNoState(s) THEN NoState
    ELSE Replay(I, get_next_state(I, s, Head(plan)), Tail(plan))

(***************************************************************************)
(* Action generation.  ford is the order in which the factory_jigs set is  *)
(* iterated.                                                               *)
(***************************************************************************)
FactoryOrders(s) == Perms(s.factory_jigs)

EdgeJigs(q) == IF q = <<>> THEN <<>> ELSE <<q[1], q[Len(q)]>>

\* variant: the moves are listed without asking is_valid_action
GenMoves_not_validated(I, s) ==
    LET ro == RackOrder(I)
        forJig(f, j) ==
            Concat([t \in 1..Len(ro) |->
                        IF f # ro[t] THEN <<MoveJigBetweenRacks(j, f, ro[t])>> ELSE <<>>])
        forRack(f) ==
            LET e == EdgeJigs(s.rack_jigs[f])
            IN  Concat([k \in 1..Len(e) |-> forJig(f, e[k])])
    IN  Concat([i \in 1..Len(ro) |-> forRack(ro[i])])

GenMoves(I, s) ==
    LET ro == RackOrder(I)
        forJig(f, j) ==
            LET cand == [t \in 1..Len(ro) |->
                            IF f # ro[t] /\ is_valid_action(I, s, MoveJigBetweenRacks(j, f, ro[t]))
                            THEN <<MoveJigBetweenRacks(j, f, ro[t])>> ELSE <<>>]
            IN  Concat(cand)
        forRack(f) ==
            LET e == EdgeJigs(s.rack_jigs[f])
            IN  Concat([k \in 1..Len(e) |-> forJig(f, e[k])])
    IN  Concat([i \in 1..Len(ro) |-> forRack(ro[i])])

\* variant: the jig looked at is the last of the rack, not the first
GenProduce_last_jig(I, s) ==
    LET ro == RackOrder(I)
        forRack(r) ==
            LET jigs == s.rack_jigs[r]
            IN  IF jigs = <<>> THEN <<>>
                ELSE IF /\ InSeq(jigs[Len(jigs)], production_schedule(I))
                        /\ s.jig_status[jigs[Len(jigs)]].loaded
                        /\ is_valid_action(I, s, SendJigToProduction(jigs[Len(jigs)], r))
                     THEN <<SendJigToProduction(jigs[Len(jigs)], r)>>
                     ELSE <<>>
    IN  Concat([i \in 1..Len(ro) |-> forRack(ro[i])])

GenProduce(I, s) ==
    LET ro == RackOrder(I)
        forRack(r) ==
            LET jigs == s.rack_jigs[r]
            IN  IF jigs = <<>> THEN <<>>
                ELSE IF /\ InSeq(jigs[1], production_schedule(I))
                        /\ s.jig_status[jigs[1]].loaded
                        /\ is_valid_action(I, s, SendJigToProduction(jigs[1], r))
                     THEN <<SendJigToProduction(jigs[1], r)>>
                     ELSE <<>>
    IN  Concat([i \in 1..Len(ro) |-> forRack(ro[i])])

GenReturn(I, s, ford) ==
    LET ro == RackOrder(I)
        forJig(j) ==
            IF s.jig_status[j].loaded THEN <<>>
            ELSE Concat([t \in 1..Len(ro) |->
                            IF is_valid_action(I, s, ReturnEmptyJigFromFactory(j, ro[t]))
                            THEN <<ReturnEmptyJigFromFactory(j, ro[t])>> ELSE <<>>])
    IN  Concat([k \in 1..Len(ford) |-> forJig(ford[k])])

GenFlight(I, s) ==
    IF s.current_flight_idx < Len(I.flights) - 1 /\ is_valid_action(I, s, ProcessNextFlight)
    THEN <<ProcessNextFlight>> ELSE <<>>

Tag(q, c) == [i \in 1..Len(q) |-> [action |-> q[i], class |-> c]]

Untag(q) == [i \in 1..Len(q) |-> q[i].action]

\* list.sort(key=...) is stable: entries of equal key keep their order
RECURSIVE InsertByKey(_, _, _)
InsertByKey(sorted, e, key) ==
    IF sorted = <<>> THEN <<e>>
    ELSE IF key[sorted[Len(sorted)].class] <= key[e.class] THEN Append(sorted, e)
    ELSE Append(InsertByKey(SubSeq(sorted, 1, Len(sorted) - 1), e, key), sorted[Len(sorted)])

RECURSIVE SortByKey(_, _)
SortByKey(q, key) ==
    IF q = <<>> THEN <<>>
    ELSE InsertByKey(SortByKey(SubSeq(q, 1, Len(q) - 1), key), q[Len(q)], key)

\* variant: the flight is ranked before the returns
astar_action_priority_flight_before_return == [produce |-> 0, return |-> 2, flight |-> 1, move |-> 3]

astar_action_priority == [produce |-> 0, return |-> 1, flight |-> 2, move |-> 3]

astar_get_all_possible_actions(I, s, prioritize_goals, ford) ==
    LET all_actions == Tag(GenMoves(I, s), "move") \o Tag(GenProduce(I, s), "produce")
                       \o Tag(GenReturn(I, s, ford), "return") \o Tag(GenFlight(I, s), "flight")
    IN  IF prioritize_goals THEN Untag(SortByKey(all_actions, astar_action_priority))
        ELSE Untag(all_actions)

(***************************************************************************)
(* Heuristics                                                              *)
(***************************************************************************)
flights_remaining_unclamped(I, s) == Len(I.flights) - s.current_flight_idx - 1

flights_remaining(I, s) == Max(0, Len(I.flights) - s.current_flight_idx - 1)

incoming_count(I, s) ==
    IF s.current_flight_idx < Len(I.flights)
    THEN Len(I.flights[s.current_flight_idx + 1].incoming) ELSE 0

parts_to_produce(I, s) ==
    LET ps == production_schedule(I)
    IN  Cardinality({i \in 1..Len(ps) : Pending(s, ps[i])})

total_outgoing_jigs(I, s) ==
    SumSeq([k \in 1..Max(0, Len(I.flights) - s.current_flight_idx) |->
                Len(I.flights[s.current_flight_idx + k].outgoing)])

blocked_jigs(I, s) ==
    LET ro == RackOrder(I)
        inRack(r) == Cardinality({i \in 1..Len(s.rack_jigs[r]) :
                        /\ i - 1 > 0 /\ i - 1 < Len(s.rack_jigs[r]) - 1
                        /\ InSeq(s.rack_jigs[r][i], production_schedule(I))})
    IN  SumSeq([k \in 1..Len(ro) |-> inRack(ro[k])])

standard_heuristic(I, s) ==
    incoming_count(I, s) + parts_to_produce(I, s) + total_outgoing_jigs(I, s)
        + flights_remaining(I, s) + 2 * blocked_jigs(I, s)

\* len(parts_to_produce) * 2.0 + total_outgoing_jigs * 1.0 + flights_remaining * 0.5
\* + blocked_jigs * 2.0
weighted_heuristic(I, s) ==
    FAdd(FAdd(FAdd(FMul(FInt(parts_to_produce(I, s)), FInt(2)),
                   FMul(FInt(total_outgoing_jigs(I, s)), FInt(1))),
              FMul(FInt(flights_remaining(I, s)), FDiv(FInt(1), 2))),
         FMul(FInt(blocked_jigs(I, s)), FInt(2)))

\* variant: every earlier entry of the line counts, produced or not
production_focus_heuristic_every_predecessor(I, s) ==
    LET lineCost(sch) ==
            LET partCost(idx) ==
                    IF Pending(s, sch[idx])
                    THEN LET loc == get_jig_location(I, s, sch[idx])
                             pre == idx - 1
                             dist == IF loc \notin {"beluga", "factory", "None"}
                                        /\ InSeq(sch[idx], s.rack_jigs[loc])
                                     THEN LET q == s.rack_jigs[loc]
                                              ji == IndexOf(sch[idx], q) - 1
                                          IN  Min(ji, Len(q) - 1 - ji)
                                     ELSE 0
                         IN  1 + 3 * pre + 2 * dist
                    ELSE 0
            IN  SumSeq([idx \in 1..Len(sch) |-> partCost(idx)])
    IN  SumSeq([l \in 1..Len(I.production_lines) |-> lineCost(I.production_lines[l].schedule)])
          + flights_remaining(I, s) + incoming_count(I, s) + total_outgoing_jigs(I, s)

production_focus_heuristic(I, s) ==
    LET lineCost(sch) ==
            LET partCost(idx) ==
                    IF Pending(s, sch[idx])
                    THEN LET loc == get_jig_location(I, s, sch[idx])
                             pre == Cardinality({p \in 1..(idx-1) : Pending(s, sch[p])})
                             dist == IF loc \notin {"beluga", "factory", "None"}
                                        /\ InSeq(sch[idx], s.rack_jigs[loc])
                                     THEN LET q == s.rack_jigs[loc]
                                              ji == IndexOf(sch[idx], q) - 1
                                          IN  Min(ji, Len(q) - 1 - ji)
                                     ELSE 0
                         IN  1 + 3 * pre + 2 * dist
                    ELSE 0
            IN  SumSeq([idx \in 1..Len(sch) |-> partCost(idx)])
    IN  SumSeq([l \in 1..Len(I.production_lines) |-> lineCost(I.production_lines[l].schedule)])
          + flights_remaining(I, s) + incoming_count(I, s) + total_outgoing_jigs(I, s)

heuristic(I, s, variant) ==
    IF variant = "weighted" THEN weighted_heuristic(I, s)
    ELSE IF variant = "production_focus" THEN FInt(production_focus_heuristic(I, s))
    ELSE FInt(standard_heuristic(I, s))

(***************************************************************************)
(* Instances and initial states the searches are run on                    *)
(***************************************************************************)
NumFlightsLong == 101

\* a chain of flights that ends just before the first progress check
NumFlightsShort == 99

\* the integer domains of the hand-built CSPs are drawn from 0..MaxValue
MaxValue == 3

SmallCap == 2

\* the longest flight list of the problems whose states' CSPs are reduced
NumFlightsCsp == 3

DefaultMaxIterations == 10000

LsDefaultMaxIterations == 5000

ProgressInterval == 100

JigTypes == [tA |-> [size_loaded |-> 2, size_empty |-> 1],
             tS |-> [size_loaded |-> 1, size_empty |-> 1]]

EmptyFlight == [incoming |-> <<>>, outgoing |-> <<>>]

Loaded(p) == [loaded |-> TRUE, part |-> p]

Unloaded == [loaded |-> FALSE, part |-> NoPart]

\* 2 racks, 2 jigs, nf flights, one production line of length 1
InstTiny(nf) ==
    [name |-> "tiny",
     jigs |-> [j1 |-> "tA", j2 |-> "tA"],
     jig_order |-> <<"j1", "j2">>,
     jig_types |-> JigTypes,
     racks |-> <<[name |-> "r1", size |-> 4], [name |-> "r2", size |-> 2]>>,
     flights |-> [i \in 1..nf |-> EmptyFlight],
     production_lines |-> <<[schedule |-> <<"j1">>]>>]

\* 2 racks, 3 jigs, 2 flights, one production line of length 2
InstTrio ==
    [name |-> "trio",
     jigs |-> [j1 |-> "tA", j2 |-> "tA", j3 |-> "tA"],
     jig_order |-> <<"j1", "j2", "j3">>,
     jig_types |-> JigTypes,
     racks |-> <<[name |-> "r1", size |-> 6], [name |-> "r2", size |-> 4]>>,
     flights |-> <<EmptyFlight, EmptyFlight>>,
     production_lines |-> <<[schedule |-> <<"j2", "j3">>]>>]

\* 3 racks, a free small jig, a scheduled jig shut in behind a blocker, many flights
InstLong ==
    [name |-> "long",
     jigs |-> [b |-> "tA", s |-> "tA", j |-> "tS"],
     jig_order |-> <<"b", "s", "j">>,
     jig_types |-> JigTypes,
     racks |-> <<[name |-> "r1", size |-> 1], [name |-> "r2", size |-> 1],
                 [name |-> "r3", size |-> 4]>>,
     flights |-> [i \in 1..NumFlightsLong |-> EmptyFlight],
     production_lines |-> <<[schedule |-> <<"s">>]>>]

TinyState(r1, r2, fac, bel, st, done) ==
    [rack_jigs |-> [r1 |-> r1, r2 |-> r2],
     jig_status |-> st,
     factory_jigs |-> fac,
     beluga_jigs |-> bel,
     current_flight_idx |-> 0,
     produced_parts |-> done]

BothLoaded == [j1 |-> Loaded("p1"), j2 |-> Loaded("p2")]

TinyStates ==
    { TinyState(<<"j1", "j2">>, <<>>, {}, {}, BothLoaded, {}),
      TinyState(<<"j2", "j1">>, <<>>, {}, {}, BothLoaded, {}),
      TinyState(<<"j2">>, <<"j1">>, {}, {}, BothLoaded, {}),
      TinyState(<<"j2">>, <<>>, {}, {"j1"}, BothLoaded, {}),
      TinyState(<<"j2">>, <<>>, {"j1"}, {}, [j1 |-> Unloaded, j2 |-> Loaded("p2")], {"p1"}) }

TrioStates ==
    { [rack_jigs |-> [r1 |-> <<"j1", "j2", "j3">>, r2 |-> <<>>],
       jig_status |-> [j1 |-> Unloaded, j2 |-> Loaded("p2"), j3 |-> Loaded("p3")],
       factory_jigs |-> {}, beluga_jigs |-> {}, current_flight_idx |-> 0, produced_parts |-> {}],
      [rack_jigs |-> [r1 |-> <<"j3", "j1">>, r2 |-> <<"j2">>],
       jig_status |-> [j1 |-> Loaded("p1"), j2 |-> Loaded("p2"), j3 |-> Loaded("p3")],
       factory_jigs |-> {}, beluga_jigs |-> {}, current_flight_idx |-> 0, produced_parts |-> {}] }

\* 2 racks, 4 jigs, 1 flight, one production line of length 3; the third
\* scheduled jig starts between two others
QuadProblem ==
    [inst |-> [name |-> "quad",
               jigs |-> [j1 |-> "tA", j2 |-> "tA", j3 |-> "tS", j4 |-> "tS"],
               jig_order |-> <<"j1", "j2", "j3", "j4">>,
               jig_types |-> JigTypes,
               racks |-> <<[name |-> "r1", size |-> 2], [name |-> "r2", size |-> 6]>>,
               flights |-> <<EmptyFlight>>,
               production_lines |-> <<[schedule |-> <<"j3", "j2", "j4">>]>>],
     state |->
        [rack_jigs |-> [r1 |-> <<"j3">>, r2 |-> <<"j2", "j4", "j1">>],
         jig_status |-> [j1 |-> Unloaded, j2 |-> Loaded("p2"), j3 |-> Loaded("p3"),
                         j4 |-> Loaded("p4")],
         factory_jigs |-> {}, beluga_jigs |-> {}, current_flight_idx |-> 0, produced_parts |-> {}]]

\* 2 racks, 4 loaded jigs, 3 flights, one production line of length 3: the
\* search meets priorities that differ in the last bit of the float
RoundingProblem ==
    [inst |-> [name |-> "rounding",
               jigs |-> [j1 |-> "tA", j2 |-> "tA", j3 |-> "tS", j4 |-> "tS"],
               jig_order |-> <<"j1", "j2", "j3", "j4">>,
               jig_types |-> JigTypes,
               racks |-> <<[name |-> "r1", size |-> 6], [name |-> "r2", size |-> 6]>>,
               flights |-> <<EmptyFlight, EmptyFlight, EmptyFlight>>,
               production_lines |-> <<[schedule |-> <<"j1", "j2", "j3">>]>>],
     state |->
        [rack_jigs |-> [r1 |-> <<>>, r2 |-> <<"j3", "j4", "j1", "j2">>],
         jig_status |-> [j1 |-> Loaded("p1"), j2 |-> Loaded("p2"), j3 |-> Loaded("p3"),
                         j4 |-> Loaded("p4")],
         factory_jigs |-> {}, beluga_jigs |-> {}, current_flight_idx |-> 0, produced_parts |-> {}]]

SmallProblems ==
    {[inst |-> InstTiny(nf), state |-> s] : nf \in 1..2, s \in TinyStates}
        \cup {[inst |-> InstTrio, state |-> s] : s \in TrioStates}

LongProblem ==
    [inst |-> InstLong,
     state |->
        [rack_jigs |-> [r1 |-> <<"j">>, r2 |-> <<>>, r3 |-> <<"b", "s">>],
         jig_status |-> [b |-> Loaded("pb"), s |-> Loaded("ps"), j |-> Unloaded],
         factory_jigs |-> {}, beluga_jigs |-> {}, current_flight_idx |-> 0, produced_parts |-> {}]]

HeuristicVariants == {"standard", "weighted", "production_focus"}

(***************************************************************************)
(* Idle values of the variables a run does not use                         *)
(***************************************************************************)
Running == [status |-> "running", plan |-> <<>>]

NoPlan == [status |-> "none", plan |-> <<>>]

PlanResult(p) == [status |-> "plan", plan |-> p]

LsIdle == [pc |-> "idle", initial |-> NoState, time_limit10 |-> 0, max_iterations |-> 0,
           best_state |-> NoState, best_score |-> FInt(0), best_path |-> <<>>,
           states_to_explore |-> <<>>, visited_states |-> {}, iterations |-> 0,
           result |-> Running, exit |-> ""]

CspIdle == [pc |-> "idle", domains |-> <<>>, constraints |-> <<>>, arcs |-> <<>>,
            result |-> "none", guarded |-> 0, requeued |-> 0]

HistIdle == [exit |-> "", ls_calls |-> 0, reseeds |-> 0, reseed_iter |-> 0]

CfgIdle == [max_iterations |-> 0, time_limit |-> 0, heuristic_variant |-> "standard",
            prioritize_actions |-> FALSE, use_forward_checking |-> FALSE,
            use_random_restarts |-> FALSE, random_restart_threshold |-> 0]

(***************************************************************************)
(* PriorityQueue                                                           *)
(***************************************************************************)
\* variant: among equal priorities the entry inserted last comes first
EntryBefore_ties_lifo(a, b) ==
    \/ FLess(a.priority, b.priority)
    \/ (a.priority = b.priority /\ a.count >= b.count)

EntryBefore(a, b) ==
    \/ FLess(a.priority, b.priority)
    \/ (a.priority = b.priority /\ a.count <= b.count)

PQPut(q, cnt, item, priority) == q \cup {[priority |-> priority, count |-> cnt, item |-> item]}

PQMin_worst_first(q) == CHOOSE e \in q : \A o \in q : EntryBefore(o, e)

PQMin(q) == CHOOSE e \in q : \A o \in q : EntryBefore(e, o)

(***************************************************************************)
(* reconstruct_plan                                                        *)
(***************************************************************************)
RECURSIVE WalkBack(_, _)
WalkBack(cf, st) ==
    IF st \in DOMAIN cf THEN <<cf[st].action>> \o WalkBack(cf, cf[st].previous) ELSE <<>>

Reverse(q) == [i \in 1..Len(q) |-> q[Len(q) + 1 - i]]

reconstruct_plan_not_reversed(cf, goal_state) == WalkBack(cf, goal_state)

reconstruct_plan(cf, goal_state) == Reverse(WalkBack(cf, goal_state))

(***************************************************************************)
(* astar_search                                                            *)
(***************************************************************************)
\* variant: a successor is pushed again when the new cost equals the recorded one
RECURSIVE AstarExpandFold_equal_cost_pushed(_, _, _, _, _)
AstarExpandFold_equal_cost_pushed(I, cur, actions, variant, acc) ==
    IF actions = <<>> THEN acc
    ELSE LET action == Head(actions)
             next_state == get_next_state(I, cur, action)
             new_cost == acc.cost[cur] + 1
             acc2 ==
                IF IsNoState(next_state) THEN acc
                ELSE IF next_state \notin DOMAIN acc.cost \/ new_cost <= acc.cost[next_state]
                THEN [cost  |-> (next_state :> new_cost) @@ acc.cost,
                      open  |-> PQPut(acc.open, acc.cnt, next_state,
                                      FAdd(FInt(new_cost), heuristic(I, next_state, variant))),
                      cnt   |-> acc.cnt + 1,
                      came  |-> (next_state :> [previous |-> cur, action |-> action]) @@ acc.came]
                ELSE acc
         IN  AstarExpandFold_equal_cost_pushed(I, cur, Tail(actions), variant, acc2)

\* variant: the for loop ends at the first action that leads to a known state
RECURSIVE AstarExpandFold_break_on_known(_, _, _, _, _)
AstarExpandFold_break_on_known(I, cur, actions, variant, acc) ==
    IF actions = <<>> THEN acc
    ELSE LET action == Head(actions)
             next_state == get_next_state(I, cur, action)
             new_cost == acc.cost[cur] + 1
         IN  IF IsNoState(next_state)
             THEN AstarExpandFold_break_on_known(I, cur, Tail(actions), variant, acc)
             ELSE IF next_state \notin DOMAIN acc.cost \/ new_cost < acc.cost[next_state]
             THEN AstarExpandFold_break_on_known(I, cur, Tail(actions), variant,
                     [cost  |-> (next_state :> new_cost) @@ acc.cost,
                      open  |-> PQPut(acc.open, acc.cnt, next_state,
                                      FAdd(FInt(new_cost), heuristic(I, next_state, variant))),
                      cnt   |-> acc.cnt + 1,
                      came  |-> (next_state :> [previous |-> cur, action |-> action]) @@ acc.came])
             ELSE acc

\* one pass of the for loop over the generated actions
RECURSIVE AstarExpandFold(_, _, _, _, _)
AstarExpandFold(I, cur, actions, variant, acc) ==
    IF actions = <<>> THEN acc
    ELSE LET action == Head(actions)
             next_state == get_next_state(I, cur, action)
             new_cost == acc.cost[cur] + 1
             acc2 ==
                IF IsNoState(next_state) THEN acc
                ELSE IF next_state \notin DOMAIN acc.cost \/ new_cost < acc.cost[next_state]
                THEN [cost  |-> (next_state :> new_cost) @@ acc.cost,
                      open  |-> PQPut(acc.open, acc.cnt, next_state,
                                      FAdd(FInt(new_cost), heuristic(I, next_state, variant))),
                      cnt   |-> acc.cnt + 1,
                      came  |-> (next_state :> [previous |-> cur, action |-> action]) @@ acc.came]
                ELSE acc
         IN  AstarExpandFold(I, cur, Tail(actions), variant, acc2)

AstarLoopCond_no_cap == open_set # {}

AstarLoopCond == open_set # {} /\ iterations < cfg.max_iterations

\* the data structures both searches set up before their loops
SearchInitFor(m, prob, c) ==
    /\ mode = m
    /\ inst = prob.inst
    /\ initial_state = prob.state
    /\ cfg = c
    /\ pc = "loop"
    /\ open_set = PQPut({}, 0, prob.state, FInt(0))
    /\ entry_count = 1
    /\ came_from = <<>>
    /\ cost_so_far = (prob.state :> 0)
    /\ iterations = 0
    /\ current_state = NoState
    /\ result = Running
    /\ best_progress = [flights |-> 0, parts |-> 0]
    /\ stagnation_counter = 0
    /\ restart_states = <<>>
    /\ ls = LsIdle
    /\ csp = CspIdle
    /\ hist = HistIdle

AstarConfigs ==
    {[CfgIdle EXCEPT !.max_iterations = m, !.time_limit = 60,
                     !.heuristic_variant = v, !.prioritize_actions = p] :
        m \in {0, SmallCap, DefaultMaxIterations}, v \in HeuristicVariants, p \in BOOLEAN}

AstarInit ==
    \E prob \in SmallProblems \cup {QuadProblem}, c \in AstarConfigs :
        SearchInitFor("astar", prob, c)

HybridUnchanged == UNCHANGED <<best_progress, stagnation_counter, restart_states, ls, csp>>

\* the while condition fails: "Search failed", return None
AstarFail ==
    /\ mode = "astar" /\ pc = "loop" /\ ~AstarLoopCond
    /\ result' = NoPlan
    /\ pc' = "done"
    /\ hist' = [hist EXCEPT !.exit = IF open_set = {} THEN "exhausted" ELSE "cap"]
    /\ UNCHANGED <<mode, inst, cfg, initial_state, open_set, entry_count, came_from,
                   cost_so_far, iterations, current_state>>
    /\ HybridUnchanged

\* an iteration that finds the time limit exceeded
AstarTimeLimit ==
    /\ mode = "astar" /\ pc = "loop" /\ AstarLoopCond
    /\ iterations' = iterations + 1
    /\ result' = NoPlan
    /\ pc' = "done"
    /\ hist' = [hist EXCEPT !.exit = "time"]
    /\ UNCHANGED <<mode, inst, cfg, initial_state, open_set, entry_count, came_from,
                   cost_so_far, current_state>>
    /\ HybridUnchanged

\* an iteration that pops a goal state
AstarGoal ==
    /\ mode = "astar" /\ pc = "loop" /\ AstarLoopCond
    /\ LET e == PQMin(open_set)
       IN  /\ is_goal_state(inst, e.item)
           /\ open_set' = open_set \ {e}
           /\ current_state' = e.item
           /\ result' = PlanResult(reconstruct_plan(came_from, e.item))
    /\ iterations' = iterations + 1
    /\ pc' = "done"
    /\ hist' = [hist EXCEPT !.exit = "goal"]
    /\ UNCHANGED <<mode, inst, cfg, initial_state, entry_count, came_from, cost_so_far>>
    /\ HybridUnchanged

\* an iteration that pops a non-goal state and expands it
AstarExpand ==
    /\ mode = "astar" /\ pc = "loop" /\ AstarLoopCond
    /\ LET e == PQMin(open_set)
       IN  /\ ~is_goal_state(inst, e.item)
           /\ current_state' = e.item
           /\ \E ford \in FactoryOrders(e.item) :
                LET acc == AstarExpandFold(inst, e.item,
                              astar_get_all_possible_actions(inst, e.item, cfg.prioritize_actions, ford),
                              cfg.heuristic_variant,
                              [cost |-> cost_so_far, open |-> open_set \ {e},
                               cnt |-> entry_count, came |-> came_from])
                IN  /\ open_set' = acc.open
                    /\ entry_count' = acc.cnt
                    /\ cost_so_far' = acc.cost
                    /\ came_from' = acc.came
    /\ iterations' = iterations + 1
    /\ UNCHANGED <<mode, inst, cfg, initial_state, pc, result, hist>>
    /\ HybridUnchanged

AstarNext == AstarFail \/ AstarTimeLimit \/ AstarGoal \/ AstarExpand

SpecAstar == AstarInit /\ [][AstarNext]_vars

(***************************************************************************)
(* Properties of astar_search                                              *)
(***************************************************************************)
ActionUniverse(I) ==
    {MoveJigBetweenRacks(j, f, t) : j \in JigSet(I), f \in RackSet(I), t \in RackSet(I)}
        \cup {SendJigToProduction(j, r) : j \in JigSet(I), r \in RackSet(I)}
        \cup {ReturnEmptyJigFromFactory(j, r) : j \in JigSet(I), r \in RackSet(I)}
        \cup {ProcessNextFlight}

Successors(I, s) == {apply_action(I, s, a) : a \in {x \in ActionUniverse(I) : is_valid_action(I, s, x)}}

\* breadth-first distance from a set of states to the nearest goal state, -1 if none
RECURSIVE GoalDistance(_, _, _, _)
GoalDistance(I, frontier, seen, d) ==
    IF \E s \in frontier : is_goal_state(I, s) THEN d
    ELSE IF frontier = {} THEN -1
    ELSE LET nxt == (UNION {Successors(I, s) : s \in frontier}) \ (seen \cup frontier)
         IN  GoalDistance(I, nxt, seen \cup frontier, d + 1)

ShortestPlanLength(I, s) == GoalDistance(I, {s}, {}, 0)

\* C1: a plan returned by astar_search replays from the initial state without
\* meeting an invalid action and ends in a goal state
C1_AstarPlanValid ==
    (mode = "astar" /\ result.status = "plan") =>
        LET fin == Replay(inst, initial_state, result.plan)
        IN  ~IsNoState(fin) /\ is_goal_state(inst, fin)

C1_Witness ==
    /\ mode = "astar" /\ result.status = "plan" /\ Len(result.plan) >= 2
    /\ is_goal_state(inst, Replay(inst, initial_state, result.plan))

IsSmallOptInstance ==
    /\ Len(inst.racks) = 2 /\ Cardinality(JigSet(inst)) = 2 /\ Len(inst.flights) = 1
    /\ Len(inst.production_lines) = 1 /\ Len(inst.production_lines[1].schedule) = 1
    /\ cfg.heuristic_variant = "standard"

\* C2: on the 2-rack, 2-jig, 1-flight, 1-line instance with a reachable goal the
\* standard heuristic makes astar_search return a plan of shortest length
C2_AstarShortestOnSmall ==
    (mode = "astar" /\ IsSmallOptInstance /\ ShortestPlanLength(inst, initial_state) >= 0) =>
        /\ result.status = "plan" => Len(result.plan) = ShortestPlanLength(inst, initial_state)
        /\ (pc = "done" /\ hist.exit \notin {"time", "cap"}) => result.status = "plan"

C2_Witness ==
    /\ mode = "astar" /\ IsSmallOptInstance /\ result.status = "plan"
    /\ Len(result.plan) = 2 /\ ShortestPlanLength(inst, initial_state) = 2

\* C4: astar_search returns a plan only from an iteration whose popped state is a
\* goal state, returns None on every other exit, and runs the loop body at most
\* max_iterations times
C4_AstarExits ==
    mode = "astar" =>
        /\ result.status = "plan" => (hist.exit = "goal" /\ is_goal_state(inst, current_state))
        /\ (pc = "done" /\ hist.exit \in {"exhausted", "cap", "time"}) => result = NoPlan
        /\ pc = "done" => hist.exit \in {"goal", "exhausted", "cap", "time"}
        /\ iterations <= cfg.max_iterations

C4_Witness ==
    /\ mode = "astar" /\ pc = "done" /\ hist.exit = "cap" /\ result = NoPlan
    /\ iterations = cfg.max_iterations /\ iterations > 0 /\ open_set # {}

(***************************************************************************)
(* BelugaCSP                                                               *)
(***************************************************************************)
JigVar(j) == [fam |-> "jig", jig |-> j, idx |-> 0]

FlightVar(i) == [fam |-> "flight", jig |-> "", idx |-> i]

ProdVar(j) == [fam |-> "prod", jig |-> j, idx |-> 0]

RangeSeq(a, b) == [k \in 1..Max(0, b - a) |-> a + k - 1]

get_jig_domain(I, s, j) == RackOrder(I) \o <<"beluga", "factory">>

extract_domains(I, s) ==
    LET ps == production_schedule(I)
        total == Len(I.flights)
        cur == s.current_flight_idx
        jv == {JigVar(j) : j \in JigSet(I)}
        fv == {FlightVar(i) : i \in cur..(total - 1)}
        pv == {ProdVar(ps[i]) : i \in {k \in 1..Len(ps) : ps[k] \notin s.produced_parts}}
    IN  [v \in jv \cup fv \cup pv |->
            IF v.fam = "jig" THEN get_jig_domain(I, s, v.jig)
            ELSE IF v.fam = "flight" THEN RangeSeq(cur, total)
            ELSE RangeSeq(0, Len(ps))]

check_rack_capacity(I, s, r, rs) == occupancy(I, s, r) < rs

RackPred(r, ok) == [kind |-> "rack", rack |-> r, ok |-> ok]

LessPred == [kind |-> "lt", rack |-> "", ok |-> FALSE]

\* a constraint function of a hand-built CSP: lambda v1, v2: v1 > v2
GreaterPred == [kind |-> "gt", rack |-> "", ok |-> FALSE]

Holds(p, v1, v2) ==
    IF p.kind = "rack" THEN (~(v1 = p.rack /\ v2 = p.rack)) \/ p.ok
    ELSE IF p.kind = "gt" THEN v1 > v2
    ELSE v1 < v2

Constraint(x, y, p) == [x |-> x, y |-> y, p |-> p]

extract_constraints(I, s, doms) ==
    LET ro == RackOrder(I)
        jo == I.jig_order
        pairsFor(r) ==
            Concat([i \in 1..Len(jo) |->
                [k \in 1..(Len(jo) - i) |->
                    Constraint(JigVar(jo[i]), JigVar(jo[i + k]),
                               RackPred(r, check_rack_capacity(I, s, r, rack_size(I, r))))]])
        rackCs == Concat([n \in 1..Len(ro) |-> pairsFor(ro[n])])
        cur == s.current_flight_idx
        nf == Max(0, Len(I.flights) - cur)
        flightCs ==
            Concat([i \in 1..nf |->
                [k \in 1..(nf - i) |->
                    Constraint(FlightVar(cur + i - 1), FlightVar(cur + i + k - 1), LessPred)]])
        lineCs(sch) ==
            Concat([i \in 1..(Len(sch) - 1) |->
                IF ProdVar(sch[i]) \in DOMAIN doms /\ ProdVar(sch[i + 1]) \in DOMAIN doms
                THEN <<Constraint(ProdVar(sch[i]), ProdVar(sch[i + 1]), LessPred)>> ELSE <<>>])
        prodCs == Concat([l \in 1..Len(I.production_lines) |-> lineCs(I.production_lines[l].schedule)])
    IN  rackCs \o flightCs \o prodCs

InitialArcs(cs) == Concat([i \in 1..Len(cs) |-> << <<cs[i].x, cs[i].y>>, <<cs[i].y, cs[i].x>> >>])

BelugaCSP(I, s) ==
    LET doms == extract_domains(I, s)
        cs == extract_constraints(I, s, doms)
    IN  [pc |-> "built", domains |-> doms, constraints |-> cs, arcs |-> <<>>,
         result |-> "none", guarded |-> 0, requeued |-> 0]

Matches(c, var1, var2) == (c.x = var1 /\ c.y = var2) \/ (c.x = var2 /\ c.y = var1)

\* list.remove(val): drops the first occurrence
RECURSIVE RemoveAll(_, _)
RemoveAll(dom, vals) ==
    IF vals = <<>> THEN dom ELSE RemoveAll(RemoveFirst(dom, Head(vals)), Tail(vals))

ToRemove_arguments_swapped(doms, var1, var2, p) ==
    SelectSeq(doms[var1], LAMBDA val1 : ~\E k \in 1..Len(doms[var2]) : Holds(p, doms[var2][k], val1))

ToRemove(doms, var1, var2, p) ==
    SelectSeq(doms[var1], LAMBDA val1 : ~\E k \in 1..Len(doms[var2]) : Holds(p, val1, doms[var2][k]))

revise_domain_unguarded(doms, var1, var2, p) ==
    LET to_remove == ToRemove(doms, var1, var2, p)
    IN  [revised |-> to_remove # <<>>,
         domains |-> [doms EXCEPT ![var1] = RemoveAll(@, to_remove)],
         guarded |-> FALSE]

\* variant: the guard lets a revision remove every value
revise_domain_guard_not_strict(doms, var1, var2, p) ==
    LET to_remove == ToRemove(doms, var1, var2, p)
    IN  [revised |-> to_remove # <<>>,
         domains |-> IF Len(to_remove) <= Len(doms[var1])
                     THEN [doms EXCEPT ![var1] = RemoveAll(@, to_remove)]
                     ELSE doms,
         guarded |-> FALSE]

revise_domain(doms, var1, var2, p) ==
    LET to_remove == ToRemove(doms, var1, var2, p)
    IN  [revised |-> to_remove # <<>>,
         domains |-> IF Len(to_remove) < Len(doms[var1])
                     THEN [doms EXCEPT ![var1] = RemoveAll(@, to_remove)]
                     ELSE doms,
         guarded |-> to_remove # <<>> /\ ~(Len(to_remove) < Len(doms[var1]))]

\* variant: the revised arc itself goes back on the worklist
AffectedArcs_same_arc(cs, var1, var2) == << <<var1, var2>> >>

\* the arcs (v1, var1) of the constraints (v1, var1, _) with v1 # var2
AffectedArcs(cs, var1, var2) ==
    LET back == SelectSeq(cs, LAMBDA k : k.y = var1 /\ k.x # var2)
    IN  [k \in 1..Len(back) |-> <<back[k].x, var1>>]

\* one pass of the while loop of reduce_domains; guarded and requeued record
\* that a revision removed nothing because of the guard, and that such a
\* revision put arcs back on the worklist
ReduceStep(c) ==
    IF c.arcs = <<>> THEN [c EXCEPT !.pc = "done", !.result = "true"]
    ELSE LET var1 == Head(c.arcs)[1]
             var2 == Head(c.arcs)[2]
             rest == Tail(c.arcs)
             cs == c.constraints
         IN  IF var1 \notin DOMAIN c.domains \/ var2 \notin DOMAIN c.domains
             THEN [c EXCEPT !.arcs = rest]
             ELSE IF ~\E i \in 1..Len(cs) : Matches(cs[i], var1, var2)
             THEN [c EXCEPT !.arcs = rest]
             ELSE LET ci == CHOOSE i \in 1..Len(cs) :
                                /\ Matches(cs[i], var1, var2)
                                /\ \A k \in 1..(i - 1) : ~Matches(cs[k], var1, var2)
                      rv == revise_domain(c.domains, var1, var2, cs[ci].p)
                      back == AffectedArcs(cs, var1, var2)
                  IN  IF ~rv.revised THEN [c EXCEPT !.arcs = rest]
                      ELSE IF rv.domains[var1] = <<>>
                      THEN [c EXCEPT !.arcs = rest, !.domains = rv.domains,
                                     !.pc = "done", !.result = "false"]
                      ELSE [c EXCEPT !.domains = rv.domains,
                                     !.guarded = IF rv.guarded THEN 1 ELSE @,
                                     !.requeued = IF rv.guarded /\ back # <<>> THEN 1 ELSE @,
                                     !.arcs = rest \o back]

ReduceStart(c) == [c EXCEPT !.pc = "reduce", !.arcs = InitialArcs(c.constraints)]

RECURSIVE ReduceRun(_)
ReduceRun(c) ==
    IF c.pc = "done" THEN c
    ELSE CHOOSE r \in {ReduceRun(n) : n \in {ReduceStep(c)}} : TRUE

reduce_domains(c) == ReduceRun(ReduceStart(c))

domain_sizes(c) == [v \in DOMAIN c.domains |-> Len(c.domains[v])]

(***************************************************************************)
(* reduce_domains run step by step on the CSP of a reachable state         *)
(***************************************************************************)
RECURSIVE ReachFrom(_, _, _)
ReachFrom(I, frontier, seen) ==
    IF frontier = {} THEN seen
    ELSE ReachFrom(I, (UNION {Successors(I, s) : s \in frontier}) \ (seen \cup frontier),
                   seen \cup frontier)

IdleSearch ==
    /\ cfg = CfgIdle
    /\ open_set = {}
    /\ entry_count = 0
    /\ came_from = <<>>
    /\ cost_so_far = <<>>
    /\ iterations = 0
    /\ result = Running
    /\ best_progress = [flights |-> 0, parts |-> 0]
    /\ stagnation_counter = 0
    /\ restart_states = <<>>
    /\ hist = HistIdle

\* hand-built CSPs over integer domains: two variables x and y, one constraint (x, y, f)
GenericVar(n) == [fam |-> "generic", jig |-> n, idx |-> 0]

DistinctSeqs(S, n) == {q \in [1..n -> S] : \A i, k \in 1..n : i # k => q[i] # q[k]}

TwoVarCSPs ==
    {[pc |-> "built",
      domains |-> (GenericVar("x") :> dx) @@ (GenericVar("y") :> dy),
      constraints |-> <<Constraint(GenericVar("x"), GenericVar("y"), f)>>,
      arcs |-> <<>>, result |-> "none", guarded |-> 0, requeued |-> 0] :
        dx \in DistinctSeqs(0..MaxValue, 3),
        dy \in DistinctSeqs(0..MaxValue, 1) \cup DistinctSeqs(0..MaxValue, 2),
        f \in {LessPred, GreaterPred}}

\* mode "csp": the CSP of a reachable state; mode "generic": a hand-built CSP,
\* kept in initial_state as constructed
CspProblems ==
    SmallProblems \cup {[inst |-> InstTiny(NumFlightsCsp), state |-> s] : s \in TinyStates}

CspInit ==
    /\ \/ \E prob \in CspProblems :
            \E s \in ReachFrom(prob.inst, {prob.state}, {}) :
                /\ mode = "csp"
                /\ inst = prob.inst
                /\ initial_state = prob.state
                /\ current_state = s
                /\ csp = BelugaCSP(prob.inst, s)
       \/ \E c \in TwoVarCSPs :
                /\ mode = "generic"
                /\ inst = InstTiny(0)
                /\ initial_state = c
                /\ current_state = NoState
                /\ csp = c
    /\ pc = "csp"
    /\ ls = LsIdle
    /\ IdleSearch

CspUnchanged == UNCHANGED <<mode, inst, cfg, initial_state, pc, open_set, entry_count, came_from,
                            cost_so_far, iterations, current_state, result, best_progress,
                            stagnation_counter, restart_states, ls, hist>>

\* reduce_domains is entered: the worklist is filled
CspReduceEnter ==
    /\ pc = "csp" /\ csp.pc = "built"
    /\ csp' = ReduceStart(csp)
    /\ CspUnchanged

\* one pass of the while loop, or the return when the worklist is empty
CspReduceStep ==
    /\ pc = "csp" /\ csp.pc = "reduce"
    /\ csp' = ReduceStep(csp)
    /\ CspUnchanged

CspNext == CspReduceEnter \/ CspReduceStep

SpecCSP == CspInit /\ [][CspNext]_vars

\* reduce_domains runs to its return: the loop is never suspended
SpecCSPFair == CspInit /\ [][CspNext]_vars /\ WF_vars(CspNext)

\* C10: during reduce_domains no variable whose domain was non-empty at the start
\* ever has an empty domain
C10_RevisionNeverEmpties ==
    (mode = "csp" /\ csp.pc \in {"reduce", "done"}) =>
        \A v \in DOMAIN csp.domains :
            extract_domains(inst, current_state)[v] # <<>> => csp.domains[v] # <<>>

C10_Witness ==
    /\ mode = "csp" /\ csp.pc = "done" /\ csp.guarded = 1
    /\ \E v \in DOMAIN csp.domains : Len(csp.domains[v]) < Len(extract_domains(inst, current_state)[v])
    /\ \A v \in DOMAIN csp.domains : csp.domains[v] # <<>>

\* the values of x that have a supporting value in the domain of y, as constructed
Supported(c) ==
    SelectSeq(c.domains[GenericVar("x")],
              LAMBDA a : \E k \in 1..Len(c.domains[GenericVar("y")]) :
                            Holds(c.constraints[1].p, a, c.domains[GenericVar("y")][k]))

\* C11: for a CSP with two variables and one constraint whose first variable
\* has a domain of 3 values of which exactly one has a supporting value in the
\* second variable's domain, reduce_domains leaves the first variable's
\* domain equal to exactly that one value and reports success.
C11_OnlySupportedValueSurvives ==
    (mode = "generic" /\ csp.pc = "done" /\ Len(Supported(initial_state)) = 1) =>
        /\ csp.domains[GenericVar("x")] = Supported(initial_state)
        /\ csp.result = "true"

C11_Witness ==
    /\ mode = "generic" /\ csp.pc = "done"
    /\ Len(initial_state.domains[GenericVar("x")]) = 3
    /\ Len(Supported(initial_state)) = 1
    /\ Len(csp.domains[GenericVar("x")]) = 1
    /\ initial_state.constraints[1].p = LessPred

(***************************************************************************)
(* BelugaLocalSearch                                                       *)
(***************************************************************************)
\* 100 * (fp / tf) + 200 * (pp / tp) + 50 * fp + 100 * pp
evaluate_state(I, s) ==
    LET pr == check_goal_progress(I, s)
        flight_score == IF pr.total_flights > 0
                        THEN FMul(FInt(100), FDiv(FInt(pr.flights_processed), pr.total_flights))
                        ELSE FInt(0)
        parts_score == IF pr.total_parts > 0
                       THEN FMul(FInt(200), FDiv(FInt(pr.parts_produced), pr.total_parts))
                       ELSE FInt(0)
    IN  FAdd(FAdd(flight_score, parts_score),
             FInt(50 * pr.flights_processed + 100 * pr.parts_produced))

\* the candidate list _get_random_actions builds before sampling
ls_all_actions(I, s, ford) ==
    LET ro == RackOrder(I)
        moves ==
            Concat([f \in 1..Len(ro) |->
                LET jigs == s.rack_jigs[ro[f]]
                    edges == IF Len(jigs) > 0 THEN <<jigs[1], jigs[Len(jigs)]>> ELSE <<>>
                IN  Concat([e \in 1..Len(edges) |->
                        Concat([to \in 1..Len(ro) |->
                            IF ro[f] # ro[to]
                               /\ is_valid_action(I, s, MoveJigBetweenRacks(edges[e], ro[f], ro[to]))
                            THEN <<MoveJigBetweenRacks(edges[e], ro[f], ro[to])>> ELSE <<>>])])])
        produce ==
            Concat([r \in 1..Len(ro) |->
                LET jigs == s.rack_jigs[ro[r]]
                IN  IF Len(jigs) > 0
                       /\ InSeq(jigs[1], production_schedule(I)) /\ s.jig_status[jigs[1]].loaded
                       /\ is_valid_action(I, s, SendJigToProduction(jigs[1], ro[r]))
                    THEN <<SendJigToProduction(jigs[1], ro[r])>> ELSE <<>>])
        return ==
            Concat([k \in 1..Len(ford) |->
                IF ~s.jig_status[ford[k]].loaded
                THEN Concat([r \in 1..Len(ro) |->
                        IF is_valid_action(I, s, ReturnEmptyJigFromFactory(ford[k], ro[r]))
                        THEN <<ReturnEmptyJigFromFactory(ford[k], ro[r])>> ELSE <<>>])
                ELSE <<>>])
        flight ==
            IF s.current_flight_idx < Len(I.flights) - 1 /\ is_valid_action(I, s, ProcessNextFlight)
            THEN <<ProcessNextFlight>> ELSE <<>>
    IN  moves \o produce \o return \o flight

NumActions == 5

ActionTypes == <<"move", "produce", "return", "flight">>

OfType(all, ty) == SelectSeq(all, LAMBDA a : a.kind = ty)

\* every way random.choice can pick one action of each available type, in type order
RECURSIVE TypePicks(_, _)
TypePicks(all, types) ==
    IF types = <<>> THEN {<<>>}
    ELSE LET of == OfType(all, Head(types))
             rest == TypePicks(all, Tail(types))
         IN  IF of = <<>> THEN rest
             ELSE {<<of[i]>> \o r : i \in 1..Len(of), r \in rest}

\* every result of random.sample(pool, k): k distinct positions, in any order
RECURSIVE Samples(_, _)
Samples(pool, k) ==
    IF k = 0 THEN {<<>>}
    ELSE UNION {{<<pool[i]>> \o r :
                    r \in Samples(SubSeq(pool, 1, i - 1) \o SubSeq(pool, i + 1, Len(pool)), k - 1)} :
                i \in 1..Len(pool)}

\* variant: num_actions candidates are sampled without the pick per type
get_random_actions_sample_only(I, s, ford) ==
    LET all_actions == ls_all_actions(I, s, ford)
    IN  Samples(all_actions, Min(NumActions, Len(all_actions)))

get_random_actions(I, s, ford) ==
    LET all_actions == ls_all_actions(I, s, ford)
    IN  UNION {LET remaining_actions == SelectSeq(all_actions, LAMBDA a : ~InSeq(a, selected))
                   remaining_slots == NumActions - Len(selected)
               IN  IF remaining_actions # <<>> /\ remaining_slots > 0
                   THEN {selected \o x :
                            x \in Samples(remaining_actions, Min(remaining_slots, Len(remaining_actions)))}
                   ELSE {selected} :
               selected \in TypePicks(all_actions, ActionTypes)}

LsBetter_or_equal(current_score, best_score) == FLeq(best_score, current_score)

LsBetter(current_score, best_score) == FLess(best_score, current_score)

LsAlreadyVisited_inverted(st, visited) == st \notin visited

LsAlreadyVisited(st, visited) == st \in visited

\* variant: a successor is appended whether or not it was visited
RECURSIVE LsEnqueue_visited_not_checked(_, _, _, _, _, _)
LsEnqueue_visited_not_checked(I, cur, path_so_far, actions, visited, queue) ==
    IF actions = <<>> THEN queue
    ELSE LET next_state == get_next_state(I, cur, Head(actions))
             q2 == IF ~IsNoState(next_state)
                   THEN Append(queue, [state |-> next_state, path |-> Append(path_so_far, Head(actions))])
                   ELSE queue
         IN  LsEnqueue_visited_not_checked(I, cur, path_so_far, Tail(actions), visited, q2)

\* variant: the children append to the path of their parent instead of a copy of it
RECURSIVE LsEnqueue_path_not_copied(_, _, _, _, _, _)
LsEnqueue_path_not_copied(I, cur, path_so_far, actions, visited, queue) ==
    IF actions = <<>> THEN queue
    ELSE LET next_state == get_next_state(I, cur, Head(actions))
             fresh == ~IsNoState(next_state) /\ next_state \notin visited
             new_path == IF fresh THEN Append(path_so_far, Head(actions)) ELSE path_so_far
             q2 == IF fresh THEN Append(queue, [state |-> next_state, path |-> new_path])
                   ELSE queue
         IN  LsEnqueue_path_not_copied(I, cur, new_path, Tail(actions), visited, q2)

\* successors appended to the exploration queue, in the order of the sampled actions
RECURSIVE LsEnqueue(_, _, _, _, _, _)
LsEnqueue(I, cur, path_so_far, actions, visited, queue) ==
    IF actions = <<>> THEN queue
    ELSE LET next_state == get_next_state(I, cur, Head(actions))
             q2 == IF ~IsNoState(next_state) /\ next_state \notin visited
                   THEN Append(queue, [state |-> next_state, path |-> Append(path_so_far, Head(actions))])
                   ELSE queue
         IN  LsEnqueue(I, cur, path_so_far, Tail(actions), visited, q2)

\* locals of solve right after its set-up, before the first loop test
LsStart(I, s0, time_limit10, max_iter) ==
    [pc |-> "loop", initial |-> s0, time_limit10 |-> time_limit10, max_iterations |-> max_iter,
     best_state |-> s0, best_score |-> evaluate_state(I, s0), best_path |-> <<>>,
     states_to_explore |-> <<[state |-> s0, path |-> <<>>]>>, visited_states |-> {},
     iterations |-> 0, result |-> Running, exit |-> ""]

LsLoopCond(l) == l.states_to_explore # <<>> /\ l.iterations < l.max_iterations

\* the value returned after the loop
LsFinalResult(l) == IF l.best_path # <<>> THEN PlanResult(l.best_path) ELSE NoPlan

LsCap == 6

\* problems whose reachable state space is a handful of states
NarrowProblems ==
    {pr \in SmallProblems : pr.inst.name = "tiny" /\ pr.state.rack_jigs["r1"] = <<"j2">>
                              /\ pr.state.rack_jigs["r2"] = <<>>}

LsCalls ==
    {[prob |-> pr, max_iterations |-> m] : pr \in SmallProblems, m \in {0, 1, LsCap}}
        \cup {[prob |-> pr, max_iterations |-> LsDefaultMaxIterations] : pr \in NarrowProblems}

LsInit ==
    \E call \in LsCalls :
      LET prob == call.prob
          m == call.max_iterations
      IN
        /\ mode = "ls"
        /\ inst = prob.inst
        /\ initial_state = prob.state
        /\ current_state = NoState
        /\ pc = "local_search"
        /\ ls = LsStart(prob.inst, prob.state, 300, m)
        /\ csp = CspIdle
        /\ IdleSearch

LsUnchanged == UNCHANGED <<mode, inst, cfg, initial_state, pc, open_set, entry_count, came_from,
                           cost_so_far, iterations, current_state, result, best_progress,
                           stagnation_counter, restart_states, csp, hist>>

\* the while test fails: solve returns best_path or None
LsExit ==
    /\ pc = "local_search" /\ ls.pc = "loop" /\ ~LsLoopCond(ls)
    /\ ls' = [ls EXCEPT !.pc = "done", !.result = LsFinalResult(ls),
                        !.exit = IF ls.states_to_explore = <<>> THEN "exhausted" ELSE "cap"]
    /\ LsUnchanged

\* the time limit is found exceeded: break, then return best_path or None
LsTimeLimit ==
    /\ pc = "local_search" /\ ls.pc = "loop" /\ LsLoopCond(ls)
    /\ ls' = [ls EXCEPT !.iterations = @ + 1, !.pc = "done",
                        !.result = LsFinalResult(ls), !.exit = "time"]
    /\ LsUnchanged

\* the popped state was visited before: continue
LsSkip ==
    /\ pc = "local_search" /\ ls.pc = "loop" /\ LsLoopCond(ls)
    /\ LsAlreadyVisited(Head(ls.states_to_explore).state, ls.visited_states)
    /\ ls' = [ls EXCEPT !.iterations = @ + 1, !.states_to_explore = Tail(@)]
    /\ LsUnchanged

\* the popped state is a goal state: return its path
LsGoal ==
    /\ pc = "local_search" /\ ls.pc = "loop" /\ LsLoopCond(ls)
    /\ LET e == Head(ls.states_to_explore)
       IN  /\ ~LsAlreadyVisited(e.state, ls.visited_states)
           /\ is_goal_state(inst, e.state)
           /\ ls' = [ls EXCEPT !.iterations = @ + 1, !.states_to_explore = Tail(@),
                               !.visited_states = @ \cup {e.state},
                               !.pc = "done", !.result = PlanResult(e.path), !.exit = "goal"]
    /\ LsUnchanged

\* the popped state is scored, then expanded with a random sample of its actions
LsExpand ==
    /\ pc = "local_search" /\ ls.pc = "loop" /\ LsLoopCond(ls)
    /\ LET e == Head(ls.states_to_explore)
           current_score == evaluate_state(inst, e.state)
           better == LsBetter(current_score, ls.best_score)
           visited == ls.visited_states \cup {e.state}
       IN  /\ ~LsAlreadyVisited(e.state, ls.visited_states)
           /\ ~is_goal_state(inst, e.state)
           /\ \E ford \in FactoryOrders(e.state) :
                \E actions \in get_random_actions(inst, e.state, ford) :
                    ls' = [ls EXCEPT
                            !.iterations = @ + 1,
                            !.visited_states = visited,
                            !.best_state = IF better THEN e.state ELSE @,
                            !.best_score = IF better THEN current_score ELSE @,
                            !.best_path = IF better THEN e.path ELSE @,
                            !.states_to_explore =
                                LsEnqueue(inst, e.state, e.path, actions, visited, Tail(@))]
    /\ LsUnchanged

LsNext == LsExit \/ LsTimeLimit \/ LsSkip \/ LsGoal \/ LsExpand

SpecLS == LsInit /\ [][LsNext]_vars

(***************************************************************************)
(* Properties of BelugaLocalSearch.solve                                   *)
(***************************************************************************)
\* C7: solve on an initial state that is already a goal state, with at least one
\* iteration allowed and the time limit not exceeded, returns the empty plan in
\* its first iteration and expands nothing
C7_LsGoalAtStart ==
    (mode = "ls" /\ is_goal_state(inst, ls.initial) /\ ls.max_iterations >= 1
        /\ ls.pc = "done" /\ ls.exit # "time") =>
            /\ ls.result = PlanResult(<<>>)
            /\ ls.iterations = 1
            /\ ls.states_to_explore = <<>>
            /\ ls.visited_states = {ls.initial}

C7_Witness ==
    /\ mode = "ls" /\ is_goal_state(inst, ls.initial) /\ ls.max_iterations >= 1
    /\ ls.pc = "done" /\ ls.exit = "goal" /\ ls.result = PlanResult(<<>>)

\* the states line 80 has scored: a popped goal state is returned at line 77,
\* after it was added to visited_states and before it is scored
LsScoredStates == {s \in ls.visited_states : ~is_goal_state(inst, s)}

\* the branch of lines 83-86 was taken: a scored state beat the initial score
LsImproved == \E s \in LsScoredStates :
                 FLess(evaluate_state(inst, ls.initial), evaluate_state(inst, s))

\* what solve returns when no goal was found: the path to the best-scoring
\* scored state when one scored strictly above the initial state, else None
LsBestOrNone ==
    /\ LsImproved =>
          /\ ls.result.status = "plan"
          /\ LET fin == Replay(inst, ls.initial, ls.result.plan)
             IN  /\ fin \in LsScoredStates
                 /\ FLess(evaluate_state(inst, ls.initial), evaluate_state(inst, fin))
                 /\ \A s \in LsScoredStates :
                        FLeq(evaluate_state(inst, s), evaluate_state(inst, fin))
    /\ ~LsImproved => ls.result = NoPlan

\* the three ways to end that the claim lists, told by the locals of solve:
\* the returned path reaches a goal state, the counter is at the cap, or the
\* break of line 63 was taken
LsEndedOnGoal == /\ ls.result.status = "plan"
                 /\ is_goal_state(inst, Replay(inst, ls.initial, ls.result.plan))
LsEndedOnCap == ls.iterations >= ls.max_iterations
LsEndedOnTime == ls.exit = "time"

\* C8 as stated: solve ends on goal found, iteration cap or time limit; without
\* a goal it returns the path to the best-scoring state seen when some state
\* scored strictly higher than the initial state, and None otherwise
C8_LsEndsOnGoalCapOrTime ==
    (mode = "ls" /\ ls.pc = "done") =>
        /\ LsEndedOnGoal \/ LsEndedOnCap \/ LsEndedOnTime
        /\ ~LsEndedOnGoal => LsBestOrNone

\* C8, amended: solve ends on goal found, iteration cap, time limit or an empty
\* queue (the while test of line 57 fails on either operand), never after more
\* than max_iterations passes; a goal exit returns a path to a goal state, an
\* exit at the cap leaves the counter at the cap, an exit on the empty queue
\* leaves nothing to explore; without a goal solve returns the path to the
\* best-scoring scored state when one scored strictly higher than the initial
\* state, and None otherwise
C8_LsReturnsBestOrNone ==
    (mode = "ls" /\ ls.pc = "done") =>
        /\ ls.iterations <= ls.max_iterations
        /\ \/ ls.exit = "goal" /\ LsEndedOnGoal
           \/ ls.exit = "cap" /\ LsEndedOnCap /\ ls.states_to_explore # <<>>
           \/ ls.exit = "time" /\ ls.iterations >= 1
           \/ ls.exit = "exhausted" /\ ls.states_to_explore = <<>>
        /\ ls.exit # "goal" => LsBestOrNone

\* the queue ran empty below the cap, without a goal, after a state beat the
\* initial score: the best path is returned
C8_Witness ==
    /\ mode = "ls" /\ ls.pc = "done" /\ ls.exit = "exhausted" /\ LsImproved
    /\ ls.iterations < ls.max_iterations
    /\ ls.result.status = "plan" /\ Len(ls.result.plan) >= 1
    /\ ~is_goal_state(inst, Replay(inst, ls.initial, ls.result.plan))

(***************************************************************************)
(* BelugaForwardChecker                                                    *)
(***************************************************************************)
check_forward(I, s) ==
    CHOOSE r \in {[success |-> c.result = "true", domain_sizes |-> domain_sizes(c)] :
                    c \in {reduce_domains(BelugaCSP(I, s))}} : TRUE

\* min() over the racks in dict order: the first rack of least available space
get_most_constrained_rack(I, s) ==
    LET ro == RackOrder(I)
        space(r) == rack_size(I, r) - occupancy(I, s, r)
    IN  IF ro = <<>> THEN "None"
        ELSE ro[CHOOSE i \in 1..Len(ro) :
                    /\ \A k \in 1..Len(ro) : space(ro[i]) <= space(ro[k])
                    /\ \A k \in 1..(i - 1) : space(ro[k]) > space(ro[i])]

\* variant: a schedule jig in a rack is reported at any position
get_production_bottlenecks_any_position(I, s) ==
    SelectSeq(production_schedule(I),
              LAMBDA j :
                /\ j \notin s.produced_parts
                /\ LET location == get_jig_location(I, s, j)
                   IN  /\ location \notin {"beluga", "factory", "None"}
                       /\ location \in DOMAIN s.rack_jigs
                       /\ InSeq(j, s.rack_jigs[location]))

get_production_bottlenecks(I, s) ==
    SelectSeq(production_schedule(I),
              LAMBDA j :
                /\ j \notin s.produced_parts
                /\ LET location == get_jig_location(I, s, j)
                   IN  /\ location \notin {"beluga", "factory", "None"}
                       /\ location \in DOMAIN s.rack_jigs
                       /\ InSeq(j, s.rack_jigs[location])
                       /\ LET jig_index == IndexOf(j, s.rack_jigs[location]) - 1
                          IN  0 < jig_index /\ jig_index < Len(s.rack_jigs[location]) - 1)

(***************************************************************************)
(* Hybrid get_all_possible_actions                                         *)
(***************************************************************************)
\* variant: the returns are ranked before the flight
hybrid_action_priority_return_before_flight ==
    [produce |-> 0, urgent |-> 1, flight |-> 3, return |-> 2, move |-> 4, low |-> 5]

hybrid_action_priority ==
    [produce |-> 0, urgent |-> 1, flight |-> 2, return |-> 3, move |-> 4, low |-> 5]

\* all_actions of the hybrid generator: the candidates with their priority class
hybrid_all_actions(I, s, with_checker, ford) ==
    LET ro == RackOrder(I)
        bottleneck_jigs == IF with_checker THEN get_production_bottlenecks(I, s) ELSE <<>>
        constrained_rack == IF with_checker THEN get_most_constrained_rack(I, s) ELSE "None"
        moves ==
            Concat([f \in 1..Len(ro) |->
                LET jigs == s.rack_jigs[ro[f]]
                    edges == IF Len(jigs) > 0 THEN <<jigs[1], jigs[Len(jigs)]>> ELSE <<>>
                IN  Concat([e \in 1..Len(edges) |->
                        LET priority == IF InSeq(edges[e], bottleneck_jigs) THEN "urgent" ELSE "move"
                        IN  Concat([to \in 1..Len(ro) |->
                                IF ro[f] # ro[to]
                                   /\ is_valid_action(I, s, MoveJigBetweenRacks(edges[e], ro[f], ro[to]))
                                THEN <<[action |-> MoveJigBetweenRacks(edges[e], ro[f], ro[to]),
                                        class |-> IF ro[to] = constrained_rack THEN "low" ELSE priority]>>
                                ELSE <<>>])])])
        produce ==
            Concat([r \in 1..Len(ro) |->
                LET jigs == s.rack_jigs[ro[r]]
                IN  IF Len(jigs) > 0
                       /\ InSeq(jigs[1], production_schedule(I)) /\ s.jig_status[jigs[1]].loaded
                       /\ is_valid_action(I, s, SendJigToProduction(jigs[1], ro[r]))
                    THEN <<[action |-> SendJigToProduction(jigs[1], ro[r]), class |-> "produce"]>>
                    ELSE <<>>])
        return ==
            Concat([k \in 1..Len(ford) |->
                IF ~s.jig_status[ford[k]].loaded
                THEN Concat([r \in 1..Len(ro) |->
                        IF is_valid_action(I, s, ReturnEmptyJigFromFactory(ford[k], ro[r]))
                        THEN <<[action |-> ReturnEmptyJigFromFactory(ford[k], ro[r]),
                                class |-> IF ro[r] = constrained_rack THEN "low" ELSE "return"]>>
                        ELSE <<>>])
                ELSE <<>>])
        flight ==
            IF s.current_flight_idx < Len(I.flights) - 1 /\ is_valid_action(I, s, ProcessNextFlight)
            THEN <<[action |-> ProcessNextFlight, class |-> "flight"]>> ELSE <<>>
    IN  moves \o produce \o return \o flight

hybrid_get_all_possible_actions(I, s, prioritize_goals, with_checker, ford) ==
    LET all_actions == hybrid_all_actions(I, s, with_checker, ford)
    IN  IF prioritize_goals THEN Untag(SortByKey(all_actions, hybrid_action_priority))
        ELSE Untag(all_actions)

(***************************************************************************)
(* hybrid_astar_search                                                     *)
(***************************************************************************)
MinOf(S) == CHOOSE m \in S : \A x \in S : m <= x

\* the literal 0.1
Tenth == FDiv(FInt(1), 10)

\* variant: the heuristic is counted twice
hybrid_h_value_counted_twice(I, next_state, variant, use_forward_checking) ==
    FAdd(heuristic(I, next_state, variant), heuristic(I, next_state, variant))

\* h_value of a newly generated state, lines 289-312
hybrid_h_value(I, next_state, variant, use_forward_checking) ==
    LET h == heuristic(I, next_state, variant)
        adjusted(fc) ==
            LET sizes == {fc.domain_sizes[v] : v \in DOMAIN fc.domain_sizes}
                h1 == IF fc.success THEN h ELSE FAdd(h, FInt(10))
            IN  IF sizes = {} THEN h1
                ELSE LET m == MinOf(sizes)
                         h2 == FAdd(h1, FMul(Tenth, FDiv(FInt(1), m)))
                     IN  IF m > 0 THEN FAdd(h2, FMul(Tenth, FDiv(FInt(1), m)))
                         ELSE FAdd(h2, FInt(10))
    IN  IF ~use_forward_checking THEN h
        ELSE CHOOSE r \in {adjusted(fc) : fc \in {check_forward(I, next_state)}} : TRUE

\* variant: every valid successor is recorded and pushed, whatever its cost
RECURSIVE HybridExpandFold_cost_not_compared(_, _, _, _, _, _)
HybridExpandFold_cost_not_compared(I, cur, actions, variant, ufc, acc) ==
    IF actions = <<>> THEN acc
    ELSE LET action == Head(actions)
             next_state == get_next_state(I, cur, action)
             new_cost == acc.cost[cur] + 1
             acc2 ==
                IF IsNoState(next_state) THEN acc
                ELSE [cost  |-> (next_state :> new_cost) @@ acc.cost,
                      open  |-> PQPut(acc.open, acc.cnt, next_state,
                                      FAdd(FInt(new_cost), hybrid_h_value(I, next_state, variant, ufc))),
                      cnt   |-> acc.cnt + 1,
                      came  |-> (next_state :> [previous |-> cur, action |-> action]) @@ acc.came]
         IN  CHOOSE r \in {HybridExpandFold_cost_not_compared(I, cur, Tail(actions), variant, ufc, a) :
                                a \in {acc2}} : TRUE

\* one pass of the for loop over the generated actions
RECURSIVE HybridExpandFold(_, _, _, _, _, _)
HybridExpandFold(I, cur, actions, variant, ufc, acc) ==
    IF actions = <<>> THEN acc
    ELSE LET action == Head(actions)
             next_state == get_next_state(I, cur, action)
             new_cost == acc.cost[cur] + 1
             acc2 ==
                IF IsNoState(next_state) THEN acc
                ELSE IF next_state \notin DOMAIN acc.cost \/ new_cost < acc.cost[next_state]
                THEN [cost  |-> (next_state :> new_cost) @@ acc.cost,
                      open  |-> PQPut(acc.open, acc.cnt, next_state,
                                      FAdd(FInt(new_cost), hybrid_h_value(I, next_state, variant, ufc))),
                      cnt   |-> acc.cnt + 1,
                      came  |-> (next_state :> [previous |-> cur, action |-> action]) @@ acc.came]
                ELSE acc
         IN  CHOOSE r \in {HybridExpandFold(I, cur, Tail(actions), variant, ufc, a) :
                                a \in {acc2}} : TRUE

\* int(progress['flights_progress'].split('/')[0])
ProgressNumerator(p) == p[1]

\* variant: progress equal to the best seen already counts as progress
ProgressCheck_not_strict(I, st, c, bp, sc, rs) ==
    LET progress == check_goal_progress(I, st)
        flights_progress == ProgressNumerator(progress.flights_progress)
        parts_progress == ProgressNumerator(progress.parts_progress)
    IN  IF flights_progress >= bp.flights \/ parts_progress >= bp.parts
        THEN [best |-> [flights |-> Max(bp.flights, flights_progress),
                        parts |-> Max(bp.parts, parts_progress)],
              counter |-> 0,
              restarts |-> IF c.use_random_restarts /\ ~InSeq(st, rs) THEN Append(rs, st) ELSE rs]
        ELSE [best |-> bp, counter |-> sc + 1, restarts |-> rs]

\* the stagnation bookkeeping of an iteration that is a multiple of 100
ProgressCheck(I, st, c, bp, sc, rs) ==
    LET progress == check_goal_progress(I, st)
        flights_progress == ProgressNumerator(progress.flights_progress)
        parts_progress == ProgressNumerator(progress.parts_progress)
    IN  IF flights_progress > bp.flights \/ parts_progress > bp.parts
        THEN [best |-> [flights |-> Max(bp.flights, flights_progress),
                        parts |-> Max(bp.parts, parts_progress)],
              counter |-> 0,
              restarts |-> IF c.use_random_restarts /\ ~InSeq(st, rs) THEN Append(rs, st) ELSE rs]
        ELSE [best |-> bp, counter |-> sc + 1, restarts |-> rs]

\* the bookkeeping an iteration performs before it expands or reseeds
AfterCheck(I, st, c, iter, bp, sc, rs) ==
    IF iter % ProgressInterval = 0 THEN ProgressCheck(I, st, c, bp, sc, rs)
    ELSE [best |-> bp, counter |-> sc, restarts |-> rs]

\* variant: the counter has to pass the threshold, not just reach it
RestartDue_strictly_greater(c, iter, chk) ==
    /\ iter % ProgressInterval = 0
    /\ c.use_random_restarts
    /\ chk.counter > c.random_restart_threshold \div ProgressInterval
    /\ chk.restarts # <<>>

RestartDue(c, iter, chk) ==
    /\ iter % ProgressInterval = 0
    /\ c.use_random_restarts
    /\ chk.counter >= c.random_restart_threshold \div ProgressInterval
    /\ chk.restarts # <<>>

LsBudget10_no_floor(time_limit) == time_limit

\* max(5, time_limit / 10), in tenths of a second
LsBudget10(time_limit) == Max(5 * 10, time_limit)

HybridLoopCond == open_set # {} /\ iterations < cfg.max_iterations

HybridCalls ==
    {[prob |-> RoundingProblem,
      cfg |-> [max_iterations |-> DefaultMaxIterations, time_limit |-> 60,
               heuristic_variant |-> "standard",
               prioritize_actions |-> FALSE, use_forward_checking |-> u,
               use_random_restarts |-> FALSE, random_restart_threshold |-> 3000]] :
        u \in {TRUE}}
    \cup
    {[prob |-> pr,
      cfg |-> [max_iterations |-> m, time_limit |-> 60, heuristic_variant |-> v,
               prioritize_actions |-> p, use_forward_checking |-> u,
               use_random_restarts |-> FALSE, random_restart_threshold |-> 3000]] :
        pr \in SmallProblems, m \in {0, SmallCap, DefaultMaxIterations},
        v \in HeuristicVariants, p \in BOOLEAN, u \in BOOLEAN}
    \cup
    {[prob |-> pr,
      cfg |-> [max_iterations |-> m, time_limit |-> tl, heuristic_variant |-> "standard",
               prioritize_actions |-> p, use_forward_checking |-> TRUE,
               use_random_restarts |-> TRUE, random_restart_threshold |-> 3000]] :
        pr \in NarrowProblems, m \in {0, 1, SmallCap, DefaultMaxIterations},
        tl \in {30, 60}, p \in BOOLEAN}
    \cup
    {[prob |-> LongProblem,
      cfg |-> [max_iterations |-> DefaultMaxIterations, time_limit |-> 60,
               heuristic_variant |-> "standard",
               prioritize_actions |-> FALSE, use_forward_checking |-> FALSE,
               use_random_restarts |-> r, random_restart_threshold |-> th]] :
        r \in BOOLEAN, th \in {50, 100}}
    \cup
    {[prob |-> [LongProblem EXCEPT !.inst.flights = [i \in 1..NumFlightsShort |-> EmptyFlight]],
      cfg |-> [max_iterations |-> DefaultMaxIterations, time_limit |-> 60,
               heuristic_variant |-> "standard",
               prioritize_actions |-> FALSE, use_forward_checking |-> FALSE,
               use_random_restarts |-> TRUE, random_restart_threshold |-> ProgressInterval]]}

HybridInit == \E call \in HybridCalls : SearchInitFor("hybrid", call.prob, call.cfg)

HybridFrame == UNCHANGED <<mode, inst, cfg, initial_state, csp>>

\* the while test fails: "Search failed"; Local Search is called when restarts are enabled
HybridFail ==
    /\ mode = "hybrid" /\ pc = "loop" /\ ~HybridLoopCond
    /\ hist' = [hist EXCEPT !.exit = IF open_set = {} THEN "exhausted" ELSE "cap",
                            !.ls_calls = IF cfg.use_random_restarts THEN @ + 1 ELSE @]
    /\ IF cfg.use_random_restarts
       THEN /\ ls' = LsStart(inst, initial_state, LsBudget10(cfg.time_limit), LsDefaultMaxIterations)
            /\ pc' = "local_search"
            /\ UNCHANGED result
       ELSE /\ result' = NoPlan
            /\ pc' = "done"
            /\ UNCHANGED ls
    /\ UNCHANGED <<open_set, entry_count, came_from, cost_so_far, iterations, current_state,
                   best_progress, stagnation_counter, restart_states>>
    /\ HybridFrame

\* an iteration that finds the time limit exceeded: return None
HybridTimeLimit ==
    /\ mode = "hybrid" /\ pc = "loop" /\ HybridLoopCond
    /\ iterations' = iterations + 1
    /\ result' = NoPlan
    /\ pc' = "done"
    /\ hist' = [hist EXCEPT !.exit = "time"]
    /\ UNCHANGED <<open_set, entry_count, came_from, cost_so_far, current_state,
                   best_progress, stagnation_counter, restart_states, ls>>
    /\ HybridFrame

\* an iteration that pops a goal state
HybridGoal ==
    /\ mode = "hybrid" /\ pc = "loop" /\ HybridLoopCond
    /\ LET e == PQMin(open_set)
       IN  /\ is_goal_state(inst, e.item)
           /\ open_set' = open_set \ {e}
           /\ current_state' = e.item
           /\ result' = PlanResult(reconstruct_plan(came_from, e.item))
    /\ iterations' = iterations + 1
    /\ pc' = "done"
    /\ hist' = [hist EXCEPT !.exit = "goal"]
    /\ UNCHANGED <<entry_count, came_from, cost_so_far,
                   best_progress, stagnation_counter, restart_states, ls>>
    /\ HybridFrame

\* an iteration that detects stagnation and reseeds the frontier
HybridRestart ==
    /\ mode = "hybrid" /\ pc = "loop" /\ HybridLoopCond
    /\ LET e == PQMin(open_set)
           chk == AfterCheck(inst, e.item, cfg, iterations + 1,
                             best_progress, stagnation_counter, restart_states)
       IN  /\ ~is_goal_state(inst, e.item)
           /\ RestartDue(cfg, iterations + 1, chk)
           /\ current_state' = e.item
           /\ best_progress' = chk.best
           /\ restart_states' = chk.restarts
           /\ \E i \in 1..Len(chk.restarts) :
                /\ open_set' = PQPut({}, 0, chk.restarts[i], FInt(0))
                /\ entry_count' = 1
           /\ stagnation_counter' = 0
    /\ iterations' = iterations + 1
    /\ hist' = [hist EXCEPT !.reseeds = @ + 1, !.reseed_iter = iterations + 1]
    /\ UNCHANGED <<came_from, cost_so_far, result, pc, ls>>
    /\ HybridFrame

\* an iteration that pops a non-goal state and expands it
HybridExpand ==
    /\ mode = "hybrid" /\ pc = "loop" /\ HybridLoopCond
    /\ LET e == PQMin(open_set)
           chk == AfterCheck(inst, e.item, cfg, iterations + 1,
                             best_progress, stagnation_counter, restart_states)
       IN  /\ ~is_goal_state(inst, e.item)
           /\ ~RestartDue(cfg, iterations + 1, chk)
           /\ current_state' = e.item
           /\ best_progress' = chk.best
           /\ restart_states' = chk.restarts
           /\ stagnation_counter' = chk.counter
           /\ \E ford \in FactoryOrders(e.item) :
                \E acc \in {HybridExpandFold(inst, e.item,
                              hybrid_get_all_possible_actions(inst, e.item, cfg.prioritize_actions,
                                                              cfg.use_forward_checking, ford),
                              cfg.heuristic_variant, cfg.use_forward_checking,
                              [cost |-> cost_so_far, open |-> open_set \ {e},
                               cnt |-> entry_count, came |-> came_from])} :
                    /\ open_set' = acc.open
                    /\ entry_count' = acc.cnt
                    /\ cost_so_far' = acc.cost
                    /\ came_from' = acc.came
    /\ iterations' = iterations + 1
    /\ UNCHANGED <<result, pc, ls, hist>>
    /\ HybridFrame

\* solve has returned: its plan is returned when it is non-empty, else None
HybridLsReturn ==
    /\ mode = "hybrid" /\ pc = "local_search" /\ ls.pc = "done"
    /\ result' = IF ls.result.status = "plan" /\ ls.result.plan # <<>> THEN ls.result ELSE NoPlan
    /\ pc' = "done"
    /\ UNCHANGED <<open_set, entry_count, came_from, cost_so_far, iterations, current_state,
                   best_progress, stagnation_counter, restart_states, ls, hist>>
    /\ HybridFrame

HybridNext ==
    \/ HybridFail
    \/ HybridTimeLimit
    \/ HybridGoal
    \/ HybridRestart
    \/ HybridExpand
    \/ LsExit
    \/ LsTimeLimit
    \/ LsSkip
    \/ LsGoal
    \/ LsExpand
    \/ HybridLsReturn

SpecHybrid == HybridInit /\ [][HybridNext]_vars

\* C3: every plan the hybrid search returns, a plan obtained from the Local
\* Search fallback included, is a legal action sequence whose replay from the
\* initial state ends in a goal state.
C3_HybridPlanReachesGoal ==
    (mode = "hybrid" /\ pc = "done" /\ result.status = "plan") =>
        LET final == Replay(inst, initial_state, result.plan)
        IN  ~IsNoState(final) /\ is_goal_state(inst, final)

\* C5: Local Search is invoked at most once per call, only with
\* use_random_restarts set and only after the main loop ended through an empty
\* frontier or the iteration cap, never after the time-limit return; it is
\* started from the original initial state with a budget of
\* max(5, time_limit / 10) seconds.
C5_LocalSearchInvocation ==
    mode = "hybrid" =>
        /\ hist.ls_calls <= 1
        /\ (hist.ls_calls = 1) = (ls.pc # "idle")
        /\ ls.pc # "idle" =>
            /\ cfg.use_random_restarts
            /\ hist.exit \in {"exhausted", "cap"}
            /\ ls.initial = initial_state
            /\ ls.time_limit10 = Max(5 * 10, cfg.time_limit)
            /\ (cfg.time_limit <= 50 => ls.time_limit10 = 50)
        /\ hist.exit = "time" => ls.pc = "idle" /\ result = NoPlan
        /\ (pc = "done" /\ hist.exit \in {"exhausted", "cap"} /\ cfg.use_random_restarts) =>
                ls.pc = "done"

C5_Witness ==
    /\ mode = "hybrid" /\ pc = "done"
    /\ hist.ls_calls = 1 /\ ls.pc = "done"
    /\ cfg.time_limit = 30 /\ ls.time_limit10 = 50
    /\ hist.exit = "cap"

\* C6: when the stagnation counter reaches the threshold and a restart state
\* is recorded, the frontier is reseeded with one recorded state and the
\* search continues: the iteration that pops the reseeded state does not
\* leave the frontier empty and end the search in failure while iteration
\* budget remains.
C6_ReseedContinuesSearch ==
    ~(/\ mode = "hybrid"
      /\ hist.reseeds >= 1
      /\ hist.exit = "exhausted"
      /\ iterations = hist.reseed_iter + 1
      /\ iterations < cfg.max_iterations)

(***************************************************************************)
(* The heuristics over the states reachable by valid actions               *)
(***************************************************************************)
Evaluated(I, s) ==
    [status |-> "heuristic", plan |-> <<>>,
     value |-> [v \in HeuristicVariants |-> heuristic(I, s, v)]]

\* the small problems, the tiny instance without any flight, and the long one
\* 2 racks, 2 jigs, 2 flights with cargo: j1 came with the first flight and
\* stands on a rack, the empty j2 waits in the aircraft for the first
\* flight's departure and is listed as incoming by the second flight
CargoProblem ==
    [inst |-> [InstTiny(2) EXCEPT
                 !.name = "cargo",
                 !.flights = <<[incoming |-> <<"j1">>, outgoing |-> <<"tA">>],
                               [incoming |-> <<"j2">>, outgoing |-> <<>>]>>],
     state |-> TinyState(<<"j1">>, <<>>, {}, {"j2"},
                         [j1 |-> Loaded("p1"), j2 |-> Unloaded], {})]

WalkProblems ==
    SmallProblems \cup {[inst |-> InstTiny(0), state |-> s] : s \in TinyStates}
        \cup {LongProblem, CargoProblem, QuadProblem}

WalkInit ==
    \E prob \in WalkProblems :
        /\ mode = "walk"
        /\ inst = prob.inst
        /\ initial_state = prob.state
        /\ current_state = prob.state
        /\ result = Evaluated(prob.inst, prob.state)
        /\ pc = "walk"
        /\ cfg = CfgIdle
        /\ open_set = {}
        /\ entry_count = 0
        /\ came_from = <<>>
        /\ cost_so_far = <<>>
        /\ iterations = 0
        /\ best_progress = [flights |-> 0, parts |-> 0]
        /\ stagnation_counter = 0
        /\ restart_states = <<>>
        /\ ls = LsIdle
        /\ csp = CspIdle
        /\ hist = HistIdle

\* one valid action is applied and the heuristics are evaluated on the new state
Walk ==
    /\ mode = "walk"
    /\ \E a \in ActionUniverse(inst) :
        /\ is_valid_action(inst, current_state, a)
        /\ current_state' = get_next_state(inst, current_state, a)
        /\ result' = Evaluated(inst, get_next_state(inst, current_state, a))
    /\ UNCHANGED <<mode, inst, cfg, initial_state, pc, open_set, entry_count, came_from,
                   cost_so_far, iterations, best_progress, stagnation_counter, restart_states,
                   ls, csp, hist>>

SpecWalk == WalkInit /\ [][Walk]_vars

\* C9: on every state reachable from an initial state by valid actions, each
\* of the three heuristics (standard, weighted, production_focus) is >= 0.
C9_HeuristicsNonNegative ==
    mode = "walk" =>
        /\ result = Evaluated(inst, current_state)
        /\ \A v \in HeuristicVariants : FLeq(FInt(0), result.value[v])

\* a walked-to state of the instance without flights: the clamp of the
\* remaining-flights term is what keeps the value at zero
C9_Witness ==
    /\ mode = "walk"
    /\ inst.flights = <<>>
    /\ current_state # initial_state
    /\ current_state.factory_jigs = {}
    /\ current_state.produced_parts # {}
    /\ \A v \in HeuristicVariants : result.value[v] = FInt(0)

\* C12: on every state reached from a well-formed initial state by valid
\* actions, each jig is in exactly one place: one position of one rack, or
\* the factory set, or the Beluga set.
C12_LocationExclusive ==
    mode = "walk" =>
        \A j \in JigSet(inst) :
            Cardinality({p \in RackSet(inst) \X (1..Cardinality(JigSet(inst)) + 1) :
                            /\ p[2] <= Len(current_state.rack_jigs[p[1]])
                            /\ current_state.rack_jigs[p[1]][p[2]] = j})
              + (IF j \in current_state.factory_jigs THEN 1 ELSE 0)
              + (IF j \in current_state.beluga_jigs THEN 1 ELSE 0) = 1

\* a jig that started on a rack went through the factory and is back on a
\* rack, and another jig sits on a rack it did not start on
C12_Witness ==
    /\ mode = "walk"
    /\ \E j \in JigSet(inst) :
          /\ initial_state.jig_status[j].loaded
          /\ ~current_state.jig_status[j].loaded
          /\ get_jig_location(inst, current_state, j) \in RackSet(inst)
    /\ \E j \in JigSet(inst) :
          /\ current_state.jig_status[j] = initial_state.jig_status[j]
          /\ get_jig_location(inst, initial_state, j) \in RackSet(inst)
          /\ get_jig_location(inst, current_state, j) \in RackSet(inst)
          /\ get_jig_location(inst, current_state, j) # get_jig_location(inst, initial_state, j)

\* C13: a move between racks is valid exactly when, besides taking an edge
\* jig to another rack, the destination's occupancy plus the jig's current
\* size does not exceed the destination's capacity (equality is allowed), and
\* no reachable state holds a rack whose occupancy exceeds its capacity.
C13_RackCapacity ==
    mode = "walk" =>
        /\ \A k \in 1..Len(inst.racks) :
              occupancy(inst, current_state, inst.racks[k].name) <= inst.racks[k].size
        /\ \A k \in 1..Len(inst.racks) : \A a \in ActionUniverse(inst) :
              (/\ a.kind = "move" /\ a.to_rack = inst.racks[k].name
               /\ a.from_rack # a.to_rack
               /\ current_state.rack_jigs[a.from_rack] # <<>>
               /\ a.jig \in {Head(current_state.rack_jigs[a.from_rack]),
                             current_state.rack_jigs[a.from_rack][Len(current_state.rack_jigs[a.from_rack])]})
              => (is_valid_action(inst, current_state, a)
                    <=> occupancy(inst, current_state, a.to_rack)
                          + jig_size(inst, current_state, a.jig) <= inst.racks[k].size)

\* only moves were made, one of them filled a rack exactly to its capacity,
\* and some other move is now refused for lack of room
C13_Witness ==
    /\ mode = "walk"
    /\ current_state.factory_jigs = initial_state.factory_jigs
    /\ current_state.jig_status = initial_state.jig_status
    /\ current_state.current_flight_idx = initial_state.current_flight_idx
    /\ \E k \in 1..Len(inst.racks) :
          /\ Len(current_state.rack_jigs[inst.racks[k].name])
                > Len(initial_state.rack_jigs[inst.racks[k].name])
          /\ occupancy(inst, current_state, inst.racks[k].name) = inst.racks[k].size
    /\ \E a \in ActionUniverse(inst) :
          /\ a.kind = "move" /\ a.from_rack # a.to_rack
          /\ current_state.rack_jigs[a.from_rack] # <<>>
          /\ a.jig = Head(current_state.rack_jigs[a.from_rack])
          /\ ~is_valid_action(inst, current_state, a)

\* C14: along every path of states the searches generate, current_flight_idx
\* never decreases from a state to its successor, and it never exceeds the
\* index of the last flight.
C14_FlightIndexMonotone ==
    /\ \A s \in DOMAIN came_from :
          /\ came_from[s].previous.current_flight_idx <= s.current_flight_idx
          /\ s.current_flight_idx <= Len(inst.flights) - 1
    /\ \A s \in DOMAIN cost_so_far :
          /\ initial_state.current_flight_idx <= s.current_flight_idx
          /\ s.current_flight_idx <= Len(inst.flights) - 1
    /\ \A k \in 1..Len(ls.states_to_explore) :
          /\ ls.initial.current_flight_idx <= ls.states_to_explore[k].state.current_flight_idx
          /\ ls.states_to_explore[k].state.current_flight_idx <= Len(inst.flights) - 1

\* the search generated a state at the last flight by processing a flight,
\* and a later state of the same path stays there
C14_Witness ==
    /\ mode = "hybrid"
    /\ Len(inst.flights) >= 2
    /\ \E s \in DOMAIN came_from :
          /\ came_from[s].action = ProcessNextFlight
          /\ s.current_flight_idx = Len(inst.flights) - 1
          /\ came_from[s].previous.current_flight_idx = Len(inst.flights) - 2
          /\ \E u \in DOMAIN came_from : came_from[u].previous = s

\* C15: with restarts enabled, at a check made every 100 iterations, when the
\* updated stagnation counter is >= random_restart_threshold // 100 and a
\* promising state is recorded, the frontier becomes a fresh queue holding
\* exactly one of the promising states, the counter becomes 0, and the popped
\* state is not expanded (cost_so_far and came_from are unchanged); when no
\* promising state is recorded the frontier is kept, the popped state is
\* expanded and the counter keeps its updated value.
C15_ReseedFrameEffects ==
    [][(/\ mode = "hybrid" /\ pc = "loop" /\ pc' = "loop"
        /\ cfg.use_random_restarts
        /\ iterations' = iterations + 1
        /\ iterations' % 100 = 0)
       => \E e \in {PQMin(open_set)} :
            \E counter \in {IF \/ e.item.current_flight_idx > best_progress.flights
                                \/ Cardinality(e.item.produced_parts) > best_progress.parts
                             THEN 0 ELSE stagnation_counter + 1} :
              IF counter >= cfg.random_restart_threshold \div 100
              THEN IF restart_states' # <<>>
                   THEN /\ \E i \in 1..Len(restart_states') :
                              open_set' = {[priority |-> FInt(0), count |-> 0,
                                            item |-> restart_states'[i]]}
                        /\ stagnation_counter' = 0
                        /\ cost_so_far' = cost_so_far
                        /\ came_from' = came_from
                   ELSE /\ open_set \ {e} \subseteq open_set'
                        /\ stagnation_counter' = counter
                        /\ counter > 0
                        /\ hist' = hist
              ELSE /\ open_set \ {e} \subseteq open_set'
                   /\ stagnation_counter' = counter
                   /\ hist' = hist]_vars

\* a reseed has just happened at a check where the counter had only reached
\* the threshold: the frontier is one promising state with priority 0 and the
\* state popped in that iteration has no successor recorded
C15_Witness ==
    /\ mode = "hybrid" /\ pc = "loop"
    /\ hist.reseeds = 1 /\ iterations = hist.reseed_iter
    /\ cfg.random_restart_threshold = 100
    /\ stagnation_counter = 0
    /\ Cardinality(open_set) = 1
    /\ \E e \in open_set : InSeq(e.item, restart_states) /\ e.priority = FInt(0)
    /\ \A s \in DOMAIN came_from : came_from[s].previous # current_state

\* a check at which the counter reached the threshold while no promising
\* state was recorded: the search went on from the kept frontier
C15_NoPromisingState ==
    /\ mode = "hybrid" /\ pc = "loop" /\ cfg.use_random_restarts
    /\ iterations = 100 /\ stagnation_counter = 1 /\ restart_states = <<>>
    /\ cfg.random_restart_threshold \div 100 = 1
    /\ hist.reseeds = 0
    /\ Cardinality(open_set) > 1
    /\ current_state.current_flight_idx = 0

\* C16: the stagnation bookkeeping of the hybrid search changes only in
\* iterations that are multiples of 100.  There, if the popped state has
\* processed more flights or produced more parts than the best seen, the
\* counter becomes 0, each best becomes the larger of itself and the new
\* count, and with restarts enabled the state is appended to the promising
\* list unless it is in it; otherwise the bests and the list stay and the
\* counter grows by exactly 1 (a reseed in the same iteration then sets it to
\* 0).  The promising list never holds a state twice.
C16_StagnationTracking ==
    [][(/\ mode = "hybrid" /\ pc = "loop" /\ pc' = "loop"
        /\ iterations' = iterations + 1)
       => /\ \A i, k \in 1..Len(restart_states') :
                i # k => restart_states'[i] # restart_states'[k]
          /\ IF iterations' % 100 # 0
             THEN UNCHANGED <<best_progress, stagnation_counter, restart_states>>
             ELSE \E st \in {PQMin(open_set).item} :
                    IF \/ st.current_flight_idx > best_progress.flights
                       \/ Cardinality(st.produced_parts) > best_progress.parts
                    THEN /\ stagnation_counter' = 0
                         /\ best_progress'.flights
                                = Max(best_progress.flights, st.current_flight_idx)
                         /\ best_progress'.parts
                                = Max(best_progress.parts, Cardinality(st.produced_parts))
                         /\ restart_states' =
                                IF cfg.use_random_restarts /\ ~InSeq(st, restart_states)
                                THEN Append(restart_states, st) ELSE restart_states
                    ELSE /\ best_progress' = best_progress
                         /\ restart_states' = restart_states
                         /\ stagnation_counter' =
                                IF hist'.reseeds # hist.reseeds THEN 0
                                ELSE stagnation_counter + 1]_vars

\* a run without restarts whose check at iteration 100 raised the best
\* flight count and whose check at iteration 200 found no progress
C16_Witness ==
    /\ mode = "hybrid" /\ pc = "loop"
    /\ ~cfg.use_random_restarts
    /\ iterations = 200
    /\ best_progress.flights > 0
    /\ current_state.current_flight_idx <= best_progress.flights
    /\ stagnation_counter = 1
    /\ restart_states = <<>>

\* C17: the state an iteration takes from the frontier belongs to the entry
\* with the smallest priority and, among the entries of that priority, to the
\* one inserted first; no two entries of the frontier agree on priority and
\* insertion number, so the stored states are never compared.
C17_QueueOrder ==
    [][(/\ mode \in {"astar", "hybrid"} /\ pc = "loop"
        /\ iterations' = iterations + 1
        /\ (pc' = "loop" \/ result'.status = "plan"))
       => /\ \A a, b \in open_set : (a.priority = b.priority /\ a.count = b.count) => a = b
          /\ \E e \in open_set :
                /\ current_state' = e.item
                /\ \A o \in open_set \ {e} :
                      \/ FLess(e.priority, o.priority)
                      \/ (o.priority = e.priority /\ o.count > e.count)]_vars

\* after some iterations the frontier holds two entries of the smallest
\* priority, and an entry of larger priority that was inserted before both
C17_Witness ==
    /\ mode = "astar" /\ pc = "loop" /\ iterations >= 1
    /\ \E a, b, c \in open_set :
          /\ a.priority = b.priority /\ a.count < b.count
          /\ FLess(a.priority, c.priority) /\ c.count < a.count
          /\ \A o \in open_set : FLeq(a.priority, o.priority)

\* C18: in astar_search the recorded cost of a state is the length of its
\* recorded path.  When a state is expanded, a successor is pushed, and its
\* cost_so_far and came_from entries are written, exactly when it has no
\* cost_so_far entry or the new cost (the expanded state's cost plus 1) is
\* strictly smaller than the recorded one; the recorded cost of a state
\* never increases and nothing is pushed for an equal or larger cost.
C18_PushOnStrictlyBetterCost ==
    [][(/\ mode = "astar" /\ pc = "loop" /\ pc' = "loop"
        /\ iterations' = iterations + 1)
       => \E g \in {cost_so_far[current_state'] + 1} :
            /\ \A s \in DOMAIN cost_so_far' :
                  cost_so_far'[s] = Len(WalkBack(came_from', s))
            /\ \A s \in DOMAIN cost_so_far :
                  s \in DOMAIN cost_so_far' /\ cost_so_far'[s] <= cost_so_far[s]
            /\ \A e \in open_set' \ open_set :
                  /\ e.item \in Successors(inst, current_state')
                  /\ e.count >= entry_count
            /\ Cardinality(open_set' \ open_set) = entry_count' - entry_count
            /\ \A ns \in Successors(inst, current_state') :
                  IF ns \notin DOMAIN cost_so_far \/ g < cost_so_far[ns]
                  THEN /\ cost_so_far'[ns] = g
                       /\ came_from'[ns].previous = current_state'
                       /\ Cardinality({e \in open_set' \ open_set : e.item = ns}) = 1
                  ELSE /\ cost_so_far'[ns] = cost_so_far[ns]
                       /\ (ns \in DOMAIN came_from' <=> ns \in DOMAIN came_from)
                       /\ ns \in DOMAIN came_from => came_from'[ns] = came_from[ns]
                       /\ ~\E e \in open_set' \ open_set : e.item = ns]_vars

\* the state just expanded has a successor that was already recorded with
\* exactly the cost this expansion offers, by way of another state, next to
\* a successor that this expansion recorded
C18_Witness ==
    /\ mode = "astar" /\ pc = "loop" /\ iterations >= 2
    /\ \E ns \in Successors(inst, current_state) \cap DOMAIN came_from :
          /\ cost_so_far[ns] = cost_so_far[current_state] + 1
          /\ came_from[ns].previous # current_state
    /\ \E ns \in Successors(inst, current_state) \cap DOMAIN came_from :
          /\ came_from[ns].previous = current_state
          /\ \E e \in open_set : e.item = ns

\* C19: with prioritize_goals the baseline get_all_possible_actions returns
\* the SendJigToProduction actions, then the ReturnEmptyJigFromFactory
\* actions, then ProcessNextFlight, then the MoveJigBetweenRacks actions, each
\* class in the order in which its actions were generated.
C19_PrioritizedOrder ==
    mode = "astar" =>
        \A s \in DOMAIN cost_so_far : \A ford \in FactoryOrders(s) :
            \E generated \in {astar_get_all_possible_actions(inst, s, FALSE, ford)} :
                astar_get_all_possible_actions(inst, s, TRUE, ford)
                    = SelectSeq(generated, LAMBDA a : a.kind = "produce")
                        \o SelectSeq(generated, LAMBDA a : a.kind = "return")
                        \o SelectSeq(generated, LAMBDA a : a.kind = "flight")
                        \o SelectSeq(generated, LAMBDA a : a.kind = "move")

\* a prioritizing search expanded a state that offers actions of all four
\* classes, among them several returns and several moves
C19_Witness ==
    /\ mode = "astar" /\ cfg.prioritize_actions /\ iterations >= 1
    /\ current_state \in DOMAIN cost_so_far
    /\ \E ford \in FactoryOrders(current_state) :
          \E generated \in {astar_get_all_possible_actions(inst, current_state, TRUE, ford)} :
            /\ generated[1].kind = "produce"
            /\ Len(SelectSeq(generated, LAMBDA a : a.kind = "return")) >= 2
            /\ Len(SelectSeq(generated, LAMBDA a : a.kind = "flight")) = 1
            /\ Len(SelectSeq(generated, LAMBDA a : a.kind = "move")) >= 2
            /\ \E x \in DOMAIN came_from :
                  came_from[x] = [previous |-> current_state, action |-> generated[1]]

\* the test of line 153 can fail only when the limit is not negative: the
\* elapsed time is any value >= 0
TimeLimitMayHold(c) == c.time_limit >= 0

\* the while loop of astar_search run to its end: the lengths of the plans
\* it can return (one per iteration order of the factory set), -1 for the
\* "Search failed" exit with an empty frontier, -2 for the exit at the cap,
\* -3 for the return of line 155 in a pass that finds the time limit exceeded
RECURSIVE AstarLoop(_, _, _, _, _, _, _)
AstarLoop(I, c, open, cnt, came, cost, iter) ==
    IF open = {} THEN {-1}
    ELSE IF iter >= c.max_iterations THEN {-2}
    ELSE IF ~TimeLimitMayHold(c) THEN {-3}
    ELSE \* bound by quantifiers so that each value is computed once
         {-3} \cup
         UNION {IF is_goal_state(I, e.item)
                THEN {Len(reconstruct_plan(came, e.item))}
                ELSE UNION {AstarLoop(I, c, acc.open, acc.cnt, acc.came, acc.cost, iter + 1) :
                              acc \in {AstarExpandFold(I, e.item,
                                          astar_get_all_possible_actions(I, e.item,
                                                c.prioritize_actions, ford),
                                          c.heuristic_variant,
                                          [cost |-> cost, open |-> open \ {e},
                                           cnt |-> cnt, came |-> came]) :
                                        ford \in FactoryOrders(e.item)}} :
                e \in {PQMin(open)}}

astar_search(I, s0, c) ==
    AstarLoop(I, c, PQPut({}, 0, s0, FInt(0)), 1, <<>>, (s0 :> 0), 0)

\* C20: when astar_search ends without reaching the iteration cap or the
\* time limit, the search on the same instance, initial state and heuristic
\* variant with the other setting of prioritize_actions, unless it reaches
\* the cap or the time limit, returns a plan of the same length (or None where this one
\* returned None).
C20_OrderingKeepsPlanLength ==
    (mode = "astar" /\ pc = "done" /\ hist.exit \in {"goal", "exhausted"}) =>
        \A other \in astar_search(inst, initial_state,
                                  [cfg EXCEPT !.prioritize_actions = ~cfg.prioritize_actions]) :
            \/ other \in {-2, -3}
            \/ other = IF result.status = "plan" THEN Len(result.plan) ELSE -1

\* C21: with a forward checker and prioritization, the hybrid
\* get_all_possible_actions returns the candidates by class, produce, urgent,
\* flight, return, move, low, each class in generation order, where a move or
\* a return into the most constrained rack is low, any other move of a
\* bottleneck jig is urgent, and the remaining moves and returns are move
\* and return.
C21_HybridPrioritizedOrder ==
    (mode = "hybrid" /\ cfg.use_forward_checking) =>
        \A s \in DOMAIN cost_so_far : \A ford \in FactoryOrders(s) :
            \E generated \in {hybrid_get_all_possible_actions(inst, s, FALSE, TRUE, ford)} :
              \E low \in {get_most_constrained_rack(inst, s)} :
                \E urgent \in {get_production_bottlenecks(inst, s)} :
                  hybrid_get_all_possible_actions(inst, s, TRUE, TRUE, ford)
                    = SelectSeq(generated, LAMBDA a : a.kind = "produce")
                      \o SelectSeq(generated, LAMBDA a :
                            a.kind = "move" /\ a.to_rack # low /\ InSeq(a.jig, urgent))
                      \o SelectSeq(generated, LAMBDA a : a.kind = "flight")
                      \o SelectSeq(generated, LAMBDA a : a.kind = "return" /\ a.to_rack # low)
                      \o SelectSeq(generated, LAMBDA a :
                            a.kind = "move" /\ a.to_rack # low /\ ~InSeq(a.jig, urgent))
                      \o SelectSeq(generated, LAMBDA a :
                            a.kind \in {"move", "return"} /\ a.to_rack = low)

\* a prioritizing search with forward checking expanded a state whose list
\* starts with a production and holds a flight, a return and a move outside
\* the most constrained rack and a return into it, while a scheduled jig sits
\* blocked inside a rack
C21_Witness ==
    /\ mode = "hybrid" /\ cfg.use_forward_checking /\ cfg.prioritize_actions
    /\ pc = "loop" /\ iterations >= 1
    /\ current_state \in DOMAIN cost_so_far
    /\ \E ford \in FactoryOrders(current_state) :
          \E listed \in {hybrid_get_all_possible_actions(inst, current_state, TRUE, TRUE, ford)} :
            \E low \in {get_most_constrained_rack(inst, current_state)} :
              /\ listed # <<>> /\ listed[1].kind = "produce"
              /\ \E i, j, k, l \in 1..Len(listed) :
                    /\ i < j /\ j < k /\ k < l
                    /\ listed[i].kind = "flight"
                    /\ listed[j].kind = "return" /\ listed[j].to_rack # low
                    /\ listed[k].kind = "move" /\ listed[k].to_rack # low
                    /\ listed[l].kind = "return" /\ listed[l].to_rack = low

\* far more than the rounding of a few float operations, far less than 0.1
RoundingSlack == FDiv(FInt(1), 16384)

\* C22: with forward checking, the priority the hybrid search gives a newly
\* generated state is g + h + (10 if check_forward reports an inconsistency
\* or the smallest domain size is not positive, else 0)
\* + 0.1 / smallest domain size, up to the rounding of the float operations,
\* and no division by zero happens.
C22_FrontierPriority ==
    [][(/\ mode = "hybrid" /\ pc = "loop" /\ pc' = "loop"
        /\ cfg.use_forward_checking
        /\ iterations' = iterations + 1 /\ hist' = hist)
       => \A e \in open_set' \ open_set :
            \E fc \in {check_forward(inst, e.item)} :
              \E m \in {MinOf({fc.domain_sizes[v] : v \in DOMAIN fc.domain_sizes})} :
                /\ m # 0
                /\ \E expected \in
                        {FAdd(FAdd(FInt(cost_so_far'[e.item]),
                                   heuristic(inst, e.item, cfg.heuristic_variant)),
                              FAdd(IF ~fc.success \/ m <= 0 THEN FInt(10) ELSE FInt(0),
                                   FDiv(Tenth, m)))} :
                      /\ FLess(FAdd(e.priority, FNeg(expected)), RoundingSlack)
                      /\ FLess(FAdd(expected, FNeg(e.priority)), RoundingSlack)]_vars

\* C23: every action returned by the baseline and the hybrid
\* get_all_possible_actions is valid in the state; a move takes the first or
\* last jig of its source rack to a different rack; a production is for the
\* first jig of a rack, loaded and in a production schedule; a return is for
\* an unloaded jig of factory_jigs; ProcessNextFlight appears only below the
\* last flight index; no other kind of action (loading or unloading the
\* Beluga) appears.
C23_GeneratedActionsValid ==
    mode = "astar" =>
        \A s \in DOMAIN cost_so_far : \A ford \in FactoryOrders(s) : \A p \in BOOLEAN :
            \A listed \in {astar_get_all_possible_actions(inst, s, p, ford),
                            hybrid_get_all_possible_actions(inst, s, p, FALSE, ford),
                            hybrid_get_all_possible_actions(inst, s, p, TRUE, ford)} :
                \A i \in 1..Len(listed) : \E a \in {listed[i]} :
                    /\ is_valid_action(inst, s, a)
                    /\ a.kind \in {"move", "produce", "return", "flight"}
                    /\ a.kind = "move" =>
                          /\ a.from_rack # a.to_rack
                          /\ s.rack_jigs[a.from_rack] # <<>>
                          /\ a.jig \in {s.rack_jigs[a.from_rack][1],
                                        s.rack_jigs[a.from_rack][Len(s.rack_jigs[a.from_rack])]}
                    /\ a.kind = "produce" =>
                          /\ s.rack_jigs[a.from_rack] # <<>>
                          /\ a.jig = s.rack_jigs[a.from_rack][1]
                          /\ s.jig_status[a.jig].loaded
                          /\ \E l \in 1..Len(inst.production_lines) :
                                InSeq(a.jig, inst.production_lines[l].schedule)
                    /\ a.kind = "return" =>
                          a.jig \in s.factory_jigs /\ ~s.jig_status[a.jig].loaded
                    /\ a.kind = "flight" => s.current_flight_idx < Len(inst.flights) - 1

\* a search in generation order expanded a state that offers a move, a
\* production, a return and the flight, and it generated a state in which a
\* move of an edge jig is left out because the destination has no room
C23_Witness ==
    /\ mode = "astar" /\ ~cfg.prioritize_actions /\ pc = "loop" /\ iterations >= 1
    /\ current_state \in DOMAIN cost_so_far
    /\ \E ford \in FactoryOrders(current_state) :
          \E listed \in {astar_get_all_possible_actions(inst, current_state, FALSE, ford)} :
            \A k \in {"move", "produce", "return", "flight"} :
                \E i \in 1..Len(listed) : listed[i].kind = k
    /\ \E s \in DOMAIN cost_so_far : \E r, q \in RackSet(inst) :
          /\ r # q /\ s.rack_jigs[r] # <<>>
          /\ ~InSeq(MoveJigBetweenRacks(s.rack_jigs[r][1], r, q),
                    astar_get_all_possible_actions(inst, s, FALSE, <<>>))
          /\ \E i \in 1..Len(astar_get_all_possible_actions(inst, s, FALSE, <<>>)) :
                astar_get_all_possible_actions(inst, s, FALSE, <<>>)[i].kind = "move"

\* C24: for every state the baseline generator, the hybrid generator with
\* and without a forward checker, and the candidate list of Local Search
\* list the same actions in generation order, and a prioritized list holds
\* every action exactly as often as the generated list does.
C24_GeneratorsAgree ==
    mode = "astar" =>
        \A s \in DOMAIN cost_so_far : \A ford \in FactoryOrders(s) :
            \E generated \in {astar_get_all_possible_actions(inst, s, FALSE, ford)} :
                /\ ls_all_actions(inst, s, ford) = generated
                /\ hybrid_get_all_possible_actions(inst, s, FALSE, FALSE, ford) = generated
                /\ hybrid_get_all_possible_actions(inst, s, FALSE, TRUE, ford) = generated
                /\ \A listed \in {astar_get_all_possible_actions(inst, s, TRUE, ford),
                                   hybrid_get_all_possible_actions(inst, s, TRUE, FALSE, ford),
                                   hybrid_get_all_possible_actions(inst, s, TRUE, TRUE, ford)} :
                      /\ Len(listed) = Len(generated)
                      /\ \A i \in 1..Len(generated) :
                            Len(SelectSeq(listed, LAMBDA x : x = generated[i]))
                              = Len(SelectSeq(generated, LAMBDA x : x = generated[i]))

\* the search generated a state with at least four actions, one of them
\* listed twice, for which the three prioritized lists are in three
\* different orders
C24_Witness ==
    /\ mode = "astar" /\ iterations >= 1
    /\ \E s \in DOMAIN cost_so_far : \E ford \in FactoryOrders(s) :
          \E generated \in {ls_all_actions(inst, s, ford)} :
            /\ Len(generated) >= 4
            /\ \E i, k \in 1..Len(generated) : i # k /\ generated[i] = generated[k]
            /\ astar_get_all_possible_actions(inst, s, TRUE, ford) # generated
            /\ hybrid_get_all_possible_actions(inst, s, TRUE, TRUE, ford)
                  # astar_get_all_possible_actions(inst, s, TRUE, ford)
            /\ hybrid_get_all_possible_actions(inst, s, TRUE, TRUE, ford)
                  # hybrid_get_all_possible_actions(inst, s, TRUE, FALSE, ford)

\* C25: when reduce_domains returns true and no revision was blocked by the
\* empty-domain guard, for every constraint (x, y, p) every value left in the
\* domain of x has a value vy in the domain of y with p(vx, vy), and every
\* value left in the domain of y has a value vx in the domain of x with
\* p(vx, vy).
C25_ArcConsistentAfterReduce ==
    (pc = "csp" /\ csp.pc = "done" /\ csp.result = "true" /\ csp.guarded = 0) =>
        \A i \in 1..Len(csp.constraints) :
            \E c \in {csp.constraints[i]} :
                /\ \A a \in 1..Len(csp.domains[c.x]) : \E b \in 1..Len(csp.domains[c.y]) :
                        Holds(c.p, csp.domains[c.x][a], csp.domains[c.y][b])
                /\ \A b \in 1..Len(csp.domains[c.y]) : \E a \in 1..Len(csp.domains[c.x]) :
                        Holds(c.p, csp.domains[c.x][a], csp.domains[c.y][b])

\* arc_consistent: every ordered pair of distinct variables, every constraint
\* between the two in either orientation, the function applied with the
\* value of the pair's first variable first
arc_consistent(c) ==
    \A var1 \in DOMAIN c.domains : \A var2 \in DOMAIN c.domains :
        var1 # var2 =>
            \A i \in 1..Len(c.constraints) :
                Matches(c.constraints[i], var1, var2) =>
                    \E a \in 1..Len(c.domains[var1]) : \E b \in 1..Len(c.domains[var2]) :
                        Holds(c.constraints[i].p, c.domains[var1][a], c.domains[var2][b])

\* C26: arc_consistent returns true exactly when every constraint (x, y, p)
\* has at least one pair vx in the domain of x and vy in the domain of y
\* with p(vx, vy).
C26_ArcConsistentIffPairExists ==
    pc = "csp" =>
        (arc_consistent(csp) <=>
            \A i \in 1..Len(csp.constraints) :
                \E c \in {csp.constraints[i]} :
                    \E a \in 1..Len(csp.domains[c.x]) : \E b \in 1..Len(csp.domains[c.y]) :
                        Holds(c.p, csp.domains[c.x][a], csp.domains[c.y][b]))

\* C27: reduce_domains terminates on every CSP built from a state: it
\* returns with an empty worklist or returns false, also when a revision
\* that removed nothing because of the guard put arcs back on the worklist.
C27_ReduceTerminates ==
    (mode = "csp") ~> (csp.pc = "done" /\ (csp.result = "false" \/ csp.arcs = <<>>))

\* reduce_domains returned after a guarded revision had put arcs back on
\* the worklist
C27_Witness ==
    /\ mode = "csp" /\ csp.pc = "done" /\ csp.result = "true" /\ csp.arcs = <<>>
    /\ csp.guarded = 1 /\ csp.requeued = 1

\* C28: every list of actions an expansion of Local Search can draw for the
\* state at the head of the queue has at most 5 actions, all valid in the
\* state; it starts with one action of every class (move, produce, return,
\* flight, in this order) that has a valid action, the actions after these
\* are valid actions different from them, and when fewer than 5 actions are
\* returned no valid action is left out.
C28_SampledActions ==
    (mode = "ls" /\ ls.pc = "loop" /\ ls.states_to_explore # <<>>) =>
        \E s \in {Head(ls.states_to_explore).state} :
          \E valid \in {{a \in ActionUniverse(inst) : is_valid_action(inst, s, a)}} :
            \E classes \in {SelectSeq(ActionTypes, LAMBDA ty : \E a \in valid : a.kind = ty)} :
              \A ford \in FactoryOrders(s) : \A actions \in get_random_actions(inst, s, ford) :
                /\ Len(actions) <= 5
                /\ Len(actions) >= Len(classes)
                /\ \A i \in 1..Len(actions) : actions[i] \in valid
                /\ \A i \in 1..Len(classes) : actions[i].kind = classes[i]
                /\ \A i \in (Len(classes) + 1)..Len(actions) :
                        \A k \in 1..Len(classes) : actions[i] # actions[k]
                /\ Len(actions) < 5 => \A a \in valid : InSeq(a, actions)

\* the state at the head of the queue, reached by an expansion, has more
\* than 5 candidate actions in at least three classes
C28_Witness ==
    /\ mode = "ls" /\ ls.pc = "loop" /\ ls.states_to_explore # <<>>
    /\ ls.visited_states # {}
    /\ \E s \in {Head(ls.states_to_explore).state} : \E ford \in FactoryOrders(s) :
          \E all \in {ls_all_actions(inst, s, ford)} :
            /\ Len(all) > 5
            /\ Cardinality({all[i].kind : i \in 1..Len(all)}) >= 3
            /\ \E actions \in get_random_actions(inst, s, ford) : Len(actions) = 5

\* C29: in Local Search a popped state that is already in the visited set is
\* skipped (only the iteration counter and the queue change, nothing is
\* returned), a state enters the visited set only when it is popped and was
\* not in it, and no successor appended to the queue is in the visited set;
\* so no state is expanded twice.
C29_NoStateExpandedTwice ==
    [][(mode = "ls" /\ ls.pc = "loop" /\ ls'.iterations = ls.iterations + 1)
       => \E e \in {Head(ls.states_to_explore)} :
            /\ (e.state \in ls.visited_states /\ ls'.pc = "loop") =>
                    ls' = [ls EXCEPT !.iterations = @ + 1, !.states_to_explore = Tail(@)]
            /\ (e.state \in ls.visited_states /\ ls'.pc = "done") => ls'.exit = "time"
            /\ ls'.visited_states # ls.visited_states =>
                    /\ e.state \notin ls.visited_states
                    /\ ls'.visited_states = ls.visited_states \cup {e.state}
                    /\ SubSeq(ls'.states_to_explore, 1, Len(ls.states_to_explore) - 1)
                          = Tail(ls.states_to_explore)
                    /\ \A i \in Len(ls.states_to_explore)..Len(ls'.states_to_explore) :
                          ls'.states_to_explore[i].state \notin ls'.visited_states]_vars

\* a popped state was skipped (more iterations than visited states), and
\* the queue holds a state twice
C29_Witness ==
    /\ mode = "ls" /\ ls.pc = "loop"
    /\ ls.iterations > Cardinality(ls.visited_states)
    /\ \E i, k \in 1..Len(ls.states_to_explore) :
          i < k /\ ls.states_to_explore[i].state = ls.states_to_explore[k].state

\* C30: the standard heuristic of a state is the sum of (a) the number of
\* the current flight's incoming jigs that are still in the aircraft, (b)
\* the number of schedule jigs loaded with a part not yet produced, (c) the
\* number of outgoing jigs of the current and all later flights, (d)
\* max(0, flights - current_flight_idx - 1), and (e) 2 for each schedule
\* jig at an interior position of a rack.
C30_StandardHeuristicTerms ==
    mode = "walk" =>
        \E s \in {current_state} : \E nf \in {Len(inst.flights)} :
          \E ps \in {production_schedule(inst)} :
            result.value["standard"] =
                FInt((IF s.current_flight_idx < nf
                      THEN Cardinality({i \in 1..Len(inst.flights[s.current_flight_idx + 1].incoming) :
                              inst.flights[s.current_flight_idx + 1].incoming[i] \in s.beluga_jigs})
                      ELSE 0)
                     + Cardinality({i \in 1..Len(ps) :
                              /\ s.jig_status[ps[i]].loaded
                              /\ s.jig_status[ps[i]].part \notin s.produced_parts})
                     + SumSeq([k \in 1..Max(0, nf - s.current_flight_idx) |->
                              Len(inst.flights[s.current_flight_idx + k].outgoing)])
                     + Max(0, nf - s.current_flight_idx - 1)
                     + 2 * Cardinality({p \in RackSet(inst) \X (1..Cardinality(JigSet(inst))) :
                              /\ p[2] > 1 /\ p[2] < Len(s.rack_jigs[p[1]])
                              /\ InSeq(s.rack_jigs[p[1]][p[2]], ps)}))

\* C31: the production_focus heuristic of a state is the sum, over every
\* production line and every schedule entry whose jig is loaded with an
\* unproduced part, of 1 + 3 x (earlier entries of the line that are still
\* loaded and unproduced) + 2 x (distance of the jig from the nearer end of
\* its rack, 0 outside the racks), plus the remaining flights, the number of
\* incoming jigs of the current flight and the outgoing jigs of the current
\* and later flights.
C31_ProductionFocusTerms ==
    mode = "walk" =>
        \E s \in {current_state} : \E nf \in {Len(inst.flights)} :
            result.value["production_focus"] =
                FInt(SumSeq([l \in 1..Len(inst.production_lines) |->
                        SumSeq([idx \in 1..Len(inst.production_lines[l].schedule) |->
                            LET sch == inst.production_lines[l].schedule
                                unproduced(j) == /\ s.jig_status[j].loaded
                                                 /\ s.jig_status[j].part \notin s.produced_parts
                                places == {p \in RackSet(inst) \X (1..Cardinality(JigSet(inst))) :
                                              /\ p[2] <= Len(s.rack_jigs[p[1]])
                                              /\ s.rack_jigs[p[1]][p[2]] = sch[idx]}
                            IN  IF unproduced(sch[idx])
                                THEN 1 + 3 * Cardinality({k \in 1..(idx - 1) : unproduced(sch[k])})
                                       + (IF places = {} THEN 0
                                          ELSE LET p == CHOOSE q \in places : TRUE
                                               IN  2 * Min(p[2] - 1, Len(s.rack_jigs[p[1]]) - p[2]))
                                ELSE 0])])
                     + Max(0, nf - s.current_flight_idx - 1)
                     + (IF s.current_flight_idx < nf
                        THEN Len(inst.flights[s.current_flight_idx + 1].incoming) ELSE 0)
                     + SumSeq([k \in 1..Max(0, nf - s.current_flight_idx) |->
                              Len(inst.flights[s.current_flight_idx + k].outgoing)]))

\* a walked-to state in which a scheduled jig with an unproduced part stands
\* inside a rack behind an earlier entry of its line that is unproduced and
\* an earlier entry that is produced
C31_Witness ==
    /\ mode = "walk" /\ current_state # initial_state
    /\ \E l \in 1..Len(inst.production_lines) :
          \E idx \in 1..Len(inst.production_lines[l].schedule) :
            \E sch \in {inst.production_lines[l].schedule} :
              /\ Pending(current_state, sch[idx])
              /\ \E k \in 1..(idx - 1) : Pending(current_state, sch[k])
              /\ \E k \in 1..(idx - 1) : ~Pending(current_state, sch[k])
              /\ \E r \in RackSet(inst) : \E q \in 2..(Len(current_state.rack_jigs[r]) - 1) :
                    current_state.rack_jigs[r][q] = sch[idx]

\* C32: get_production_bottlenecks returns exactly the jigs of the
\* production schedule that carry a part not yet produced and stand at an
\* interior position of a rack; a schedule jig whose part is in
\* produced_parts is not reported, also when it stands empty in a rack again.
C32_BottlenecksUnproducedInterior ==
    mode = "walk" =>
        \E s \in {current_state} : \E ps \in {production_schedule(inst)} :
          \E reported \in {get_production_bottlenecks(inst, s)} :
            {reported[i] : i \in 1..Len(reported)} =
                {j \in {ps[i] : i \in 1..Len(ps)} :
                    /\ s.jig_status[j].loaded
                    /\ s.jig_status[j].part \notin s.produced_parts
                    /\ \E r \in RackSet(inst) : \E q \in 2..(Len(s.rack_jigs[r]) - 1) :
                          s.rack_jigs[r][q] = j}

\* C33: in both searches, also across restarts, the initial state has no
\* came_from entry; every entry came_from[s] = (p, a) has next_state(p, a) = s
\* and cost_so_far[p] < cost_so_far[s]; the backpointer chain of the popped
\* state ends at the initial state after at most cost_so_far steps, and a
\* plan rebuilt from the backpointers is at most as long as cost_so_far of
\* the goal state.
C33_BackpointersDescend ==
    (mode \in {"astar", "hybrid"} /\ pc \in {"loop", "done"}) =>
        /\ initial_state \notin DOMAIN came_from
        /\ \A s \in DOMAIN came_from :
              /\ s \in DOMAIN cost_so_far
              /\ came_from[s].previous \in DOMAIN cost_so_far
              /\ get_next_state(inst, came_from[s].previous, came_from[s].action) = s
              /\ cost_so_far[came_from[s].previous] < cost_so_far[s]
        /\ current_state \in DOMAIN cost_so_far =>
              \E back \in {WalkBack(came_from, current_state)} :
                /\ Len(back) <= cost_so_far[current_state]
                /\ Replay(inst, initial_state, Reverse(back)) = current_state
        /\ (hist.exit = "goal" /\ result.status = "plan") =>
              /\ result.plan = reconstruct_plan(came_from, current_state)
              /\ Len(result.plan) <= cost_so_far[current_state]

\* a hybrid run that reseeded its frontier and went on expanding, with a
\* popped state two or more backpointers away from the initial state
C33_Witness ==
    /\ mode = "hybrid" /\ pc = "loop"
    /\ hist.reseeds >= 1 /\ iterations > hist.reseed_iter
    /\ current_state \in DOMAIN came_from
    /\ came_from[current_state].previous \in DOMAIN came_from

\* C34: on the CSP built from a state reduce_domains returns true, so
\* check_forward reports success and the h value of the hybrid search
\* carries no inconsistency penalty of 10.
C34_ReduceNeverFails ==
    (mode = "csp" /\ csp.pc = "done") =>
        /\ csp.result = "true"
        /\ \E fc \in {check_forward(inst, current_state)} :
              /\ fc.success
              /\ fc.domain_sizes = domain_sizes(csp)
              /\ \A variant \in HeuristicVariants :
                    FLess(hybrid_h_value(inst, current_state, variant, TRUE),
                          FAdd(heuristic(inst, current_state, variant), FInt(10)))

\* reduce_domains returned true although some revision found no value of a
\* flight variable supported, and the domain of that variable is whole
C34_Witness ==
    /\ mode = "csp" /\ csp.pc = "done" /\ csp.result = "true" /\ csp.guarded = 1
    /\ \E i \in 1..Len(csp.constraints) :
          \E c \in {csp.constraints[i]} :
            /\ c.p = LessPred
            /\ csp.domains[c.y] = extract_domains(inst, current_state)[c.y]
            /\ \A a \in 1..Len(csp.domains[c.y]) : \A b \in 1..Len(csp.domains[c.x]) :
                  ~Holds(c.p, csp.domains[c.y][a], csp.domains[c.x][b])

\* C35: in every state reached from a well-formed initial state, no
\* candidate of the hybrid generator is given the class urgent, with or
\* without a forward checker: the jigs that are moved stand at an end of a
\* rack, the reported bottlenecks inside one.
C35_NoUrgentCandidate ==
    mode = "walk" =>
        \A ford \in FactoryOrders(current_state) : \A with_checker \in BOOLEAN :
            \E all \in {hybrid_all_actions(inst, current_state, with_checker, ford)} :
                /\ \A i \in 1..Len(all) : all[i].class # "urgent"
                /\ \A i \in 1..Len(all) : all[i].action.kind = "move" =>
                        ~InSeq(all[i].action.jig, get_production_bottlenecks(inst, current_state))

\* a walked-to state with a reported bottleneck in which the generator with
\* a forward checker lists moves of class move and of class low
C35_Witness ==
    /\ mode = "walk" /\ current_state # initial_state
    /\ get_production_bottlenecks(inst, current_state) # <<>>
    /\ \E ford \in FactoryOrders(current_state) :
          \E all \in {hybrid_all_actions(inst, current_state, TRUE, ford)} :
            /\ \E i \in 1..Len(all) : all[i].class = "move"
            /\ \E i \in 1..Len(all) : all[i].class = "low" /\ all[i].action.kind = "move"

\* C36: with use_forward_checking, use_random_restarts and
\* prioritize_actions all off, every step of hybrid_astar_search is the step
\* astar_search takes from the same frontier, cost_so_far, came_from and
\* iteration count: the same state is popped, the same entries are written
\* and the same result is returned.
C36_HybridPlainIsAstar ==
    [][(/\ mode = "hybrid" /\ pc = "loop"
        /\ ~cfg.use_forward_checking /\ ~cfg.use_random_restarts /\ ~cfg.prioritize_actions)
       => \/ /\ ~AstarLoopCond
             /\ result' = NoPlan /\ pc' = "done"
             /\ UNCHANGED <<open_set, entry_count, came_from, cost_so_far, iterations,
                            current_state>>
          \/ /\ AstarLoopCond
             /\ hist'.exit = "time"
             /\ iterations' = iterations + 1
             /\ result' = NoPlan /\ pc' = "done"
             /\ UNCHANGED <<open_set, entry_count, came_from, cost_so_far, current_state>>
          \/ /\ AstarLoopCond
             /\ is_goal_state(inst, PQMin(open_set).item)
             /\ iterations' = iterations + 1
             /\ current_state' = PQMin(open_set).item
             /\ open_set' = open_set \ {PQMin(open_set)}
             /\ result' = PlanResult(reconstruct_plan(came_from, PQMin(open_set).item))
             /\ pc' = "done"
             /\ UNCHANGED <<entry_count, came_from, cost_so_far>>
          \/ /\ AstarLoopCond
             /\ ~is_goal_state(inst, PQMin(open_set).item)
             /\ iterations' = iterations + 1
             /\ current_state' = PQMin(open_set).item
             /\ \E ford \in FactoryOrders(PQMin(open_set).item) :
                   \E acc \in {AstarExpandFold(inst, PQMin(open_set).item,
                                   astar_get_all_possible_actions(inst, PQMin(open_set).item,
                                                                  FALSE, ford),
                                   cfg.heuristic_variant,
                                   [cost |-> cost_so_far, open |-> open_set \ {PQMin(open_set)},
                                    cnt |-> entry_count, came |-> came_from])} :
                       /\ open_set' = acc.open
                       /\ entry_count' = acc.cnt
                       /\ cost_so_far' = acc.cost
                       /\ came_from' = acc.came
             /\ UNCHANGED <<result, pc>>]_vars

\* a hybrid run with the three options off returned a plan of two or more
\* actions after expanding states that are not on the plan
C36_Witness ==
    /\ mode = "hybrid" /\ pc = "done" /\ hist.exit = "goal"
    /\ ~cfg.use_forward_checking /\ ~cfg.use_random_restarts /\ ~cfg.prioritize_actions
    /\ result.status = "plan" /\ Len(result.plan) >= 2
    /\ Cardinality(DOMAIN came_from) > Len(result.plan)

(***************************************************************************)
(* Completeness of astar_search                                            *)
(***************************************************************************)
\* the states the for loop of one expansion obtains from the generated actions
GeneratedSuccessors(I, s) ==
    UNION {{get_next_state(I, s, acts[i]) : i \in 1..Len(acts)} :
              acts \in {astar_get_all_possible_actions(I, s, FALSE, ford) : ford \in FactoryOrders(s)}}
        \ {NoState}

RECURSIVE GeneratedReach(_, _, _)
GeneratedReach(I, frontier, seen) ==
    IF frontier = {} THEN seen
    ELSE GeneratedReach(I, (UNION {GeneratedSuccessors(I, s) : s \in frontier}) \ (seen \cup frontier),
                        seen \cup frontier)

GoalReachable(I, s) == \E t \in GeneratedReach(I, {s}, {}) : is_goal_state(I, t)

SpecAstarFair == AstarInit /\ [][AstarNext]_vars /\ WF_vars(AstarNext)

\* C37: astar_search terminates; with the default cap on these finite instances it
\* does not end on the cap, and unless the time limit ends it, it returns a plan
\* exactly when a goal state is reachable from the initial state through generated
\* actions
C37_AstarComplete ==
    /\ []((mode = "astar" /\ pc = "done" /\ cfg.max_iterations = DefaultMaxIterations) =>
            /\ hist.exit # "cap"
            /\ hist.exit # "time" =>
                  (result.status = "plan" <=> GoalReachable(inst, initial_state)))
    /\ (mode = "astar") ~> (pc = "done")

C37_Witness ==
    /\ mode = "astar" /\ pc = "done" /\ cfg.max_iterations = DefaultMaxIterations
    /\ hist.exit = "exhausted" /\ result = NoPlan /\ iterations >= 3
    /\ ~GoalReachable(inst, initial_state)
    /\ DOMAIN cost_so_far = GeneratedReach(inst, {initial_state}, {})

(***************************************************************************)
(* Repeated actions in the generated lists                                 *)
(***************************************************************************)
\* C38: on every state reached by valid actions (each jig in one place), no
\* list of the baseline generator, of the hybrid generator or of the Local
\* Search sampler holds the same action at two positions
C38_ActionsListedOnce ==
    mode = "walk" =>
        \A ford \in FactoryOrders(current_state) :
            \A listed \in {astar_get_all_possible_actions(inst, current_state, FALSE, ford),
                           astar_get_all_possible_actions(inst, current_state, TRUE, ford),
                           hybrid_get_all_possible_actions(inst, current_state, FALSE, FALSE, ford),
                           hybrid_get_all_possible_actions(inst, current_state, TRUE, FALSE, ford),
                           hybrid_get_all_possible_actions(inst, current_state, FALSE, TRUE, ford),
                           hybrid_get_all_possible_actions(inst, current_state, TRUE, TRUE, ford)}
                          \cup get_random_actions(inst, current_state, ford) :
                \A i, k \in 1..Len(listed) : listed[i] = listed[k] => i = k

(***************************************************************************)
(* Paths of Local Search                                                   *)
(***************************************************************************)
\* C39: in Local Search the path of every queue entry replays from the initial
\* state through valid actions to the state of the entry; best_path replays to
\* best_state and a returned path replays without an invalid action (to a goal
\* state on the goal exit); an expansion leaves the entries already queued and
\* the path of the expanded entry as they were, every new entry holding that
\* path extended by one action
C39_LsPathsReplay ==
    /\ [](pc = "local_search" =>
            /\ \A i \in 1..Len(ls.states_to_explore) :
                  /\ ~IsNoState(ls.states_to_explore[i].state)
                  /\ Replay(inst, ls.initial, ls.states_to_explore[i].path)
                        = ls.states_to_explore[i].state
            /\ Replay(inst, ls.initial, ls.best_path) = ls.best_state
            /\ ls.result.status = "plan" =>
                  /\ ~IsNoState(Replay(inst, ls.initial, ls.result.plan))
                  /\ ls.exit = "goal" =>
                        is_goal_state(inst, Replay(inst, ls.initial, ls.result.plan)))
    /\ [][(pc = "local_search" /\ ls.pc = "loop" /\ ls'.pc = "loop"
             /\ ls'.states_to_explore # ls.states_to_explore) =>
            \E e \in {Head(ls.states_to_explore)} : \E old \in {Len(ls.states_to_explore) - 1} :
                /\ Len(ls'.states_to_explore) >= old
                /\ \A i \in 1..old : ls'.states_to_explore[i] = ls.states_to_explore[i + 1]
                /\ \A i \in (old + 1)..Len(ls'.states_to_explore) :
                      /\ Len(ls'.states_to_explore[i].path) = Len(e.path) + 1
                      /\ SubSeq(ls'.states_to_explore[i].path, 1, Len(e.path)) = e.path
                /\ ls'.best_path \in {ls.best_path, e.path}]_vars

\* an expansion of a state two steps from the start has queued children, and
\* the best path so far has two steps
C39_Witness ==
    /\ pc = "local_search" /\ ls.pc = "loop"
    /\ Len(ls.best_path) >= 2
    /\ \E i, k \in 1..Len(ls.states_to_explore) :
          /\ i < k
          /\ Len(ls.states_to_explore[i].path) >= 3
          /\ Len(ls.states_to_explore[k].path) >= 3
          /\ SubSeq(ls.states_to_explore[i].path, 1, 2) = SubSeq(ls.states_to_explore[k].path, 1, 2)
          /\ ls.states_to_explore[i].path # ls.states_to_explore[k].path

====
